---- MODULE Spec2Model ----
(***************************************************************************)
(* Query-intent pipeline of the DTAI chatbot: SQLGenerator (generate,      *)
(* validate, optimize), ChatBotAI (procesar_mensaje, _ejecutar_consultas,  *)
(* conversation memory) and ConversationAI's history.                      *)
(*                                                                         *)
(* A statement text is a sequence of one-character strings.  A run of      *)
(* filler characters is one element whose width PadWidth gives, so that    *)
(* texts around the 2000-character cap stay short sequences.               *)
(***************************************************************************)
EXTENDS Integers, Sequences, FiniteSets, TLC

\* ------------------------------------------------------------------ text

\* str.upper() on the characters used: a-z, the n-tilde and the filler run.
UpMap ==
    ("a" :> "A") @@ ("b" :> "B") @@ ("c" :> "C") @@ ("d" :> "D") @@ ("e" :> "E") @@ 
    ("f" :> "F") @@ ("g" :> "G") @@ ("h" :> "H") @@ ("i" :> "I") @@ ("j" :> "J") @@ 
    ("k" :> "K") @@ ("l" :> "L") @@ ("m" :> "M") @@ ("n" :> "N") @@ ("o" :> "O") @@ 
    ("p" :> "P") @@ ("q" :> "Q") @@ ("r" :> "R") @@ ("s" :> "S") @@ ("t" :> "T") @@ 
    ("u" :> "U") @@ ("v" :> "V") @@ ("w" :> "W") @@ ("x" :> "X") @@ ("y" :> "Y") @@ 
    ("z" :> "Z") @@
    ("n~" :> "N~") @@ ("z*1990" :> "Z*1990")

\* A filler run: 1990 'z' (or 'Z') characters held as one element.
PadWidth == ("z*1990" :> 1990) @@ ("Z*1990" :> 1990)

\* Characters str.strip() removes.
Whitespace == {" ", "\n", "\t"}

Min(S) == CHOOSE x \in S : \A y \in S : x <= y
Max(S) == CHOOSE x \in S : \A y \in S : x >= y

RECURSIVE SumWidth(_, _)
SumWidth(t, S) ==
    IF S = {} THEN 0
    ELSE LET i == CHOOSE j \in S : TRUE
         IN  PadWidth[t[i]] - 1 + SumWidth(t, S \ {i})

\* len(query)
len(t) == Len(t) + SumWidth(t, {i \in 1..Len(t) : t[i] \in DOMAIN PadWidth})

\* query.upper()
upper(t) == [i \in 1..Len(t) |-> IF t[i] \in DOMAIN UpMap THEN UpMap[t[i]] ELSE t[i]]

MatchAt(kw, t, p) ==
    /\ p + Len(kw) - 1 <= Len(t)
    /\ \A j \in 1..Len(kw) : t[p + j - 1] = kw[j]

\* kw in t
contains(kw, t) == \E p \in 1..(Len(t) - Len(kw) + 1) : MatchAt(kw, t, p)

RECURSIVE CountFrom(_, _, _)
CountFrom(P, n, i) ==
    LET Q == {p \in P : p >= i}
    IN  IF Q = {} THEN 0 ELSE 1 + CountFrom(P, n, Min(Q) + n)

\* t.count(kw): occurrences that do not overlap, found left to right
count(kw, t) ==
    CountFrom({p \in 1..(Len(t) - Len(kw) + 1) : MatchAt(kw, t, p)}, Len(kw), 1)

\* t.replace(old, new, 1)
replace_first(t, old, new) ==
    LET P == {p \in 1..(Len(t) - Len(old) + 1) : MatchAt(old, t, p)}
    IN  IF P = {} THEN t
        ELSE SubSeq(t, 1, Min(P) - 1) \o new \o SubSeq(t, Min(P) + Len(old), Len(t))

\* t.strip()
strip(t) ==
    LET ns == {i \in 1..Len(t) : t[i] \notin Whitespace}
    IN  IF ns = {} THEN << >> ELSE SubSeq(t, Min(ns), Max(ns))

\* t.startswith(pre)
startswith(t, pre) == MatchAt(pre, t, 1)

K_SELECT   == <<"S","E","L","E","C","T">>
K_SELECT_  == <<"S","E","L","E","C","T"," ">>
K_SELECT_DISTINCT_ == <<"S","E","L","E","C","T"," ","D","I","S","T","I","N","C","T"," ">>
K_JOIN     == <<"J","O","I","N">>
K_DISTINCT == <<"D","I","S","T","I","N","C","T">>
K_LIMIT    == <<"L","I","M","I","T">>
K_LIMIT100 == <<" ","L","I","M","I","T"," ","1","0","0">>
CommentMarkers == { <<"-","-">>, <<"/","*">>, <<"*","/">> }

\* ------------------------------------------------- SQLGenerator: validator

MaxQueryLen == 2000
MaxSelects == 3
MaxJoins == 2

dangerous_keywords == <<
    <<"D","R","O","P">>,
    <<"D","E","L","E","T","E">>,
    <<"T","R","U","N","C","A","T","E">>,
    <<"A","L","T","E","R">>,
    <<"C","R","E","A","T","E">>,
    <<"G","R","A","N","T">>,
    <<"R","E","V","O","K","E">>,
    <<"I","N","S","E","R","T">>,
    <<"U","P","D","A","T","E">>,
    <<"E","X","E","C">>,
    <<"E","X","E","C","U","T","E">>,
    <<"C","A","L","L">>,
    <<"D","E","C","L","A","R","E">>,
    <<"U","N","I","O","N">>,
    <<"I","N","T","O"," ","O","U","T","F","I","L","E">>,
    <<"L","O","A","D","_","F","I","L","E">>,
    <<"D","U","M","P","F","I","L","E">>,
    <<"S","L","E","E","P">>,
    <<"B","E","N","C","H","M","A","R","K">>
>>

\* validate_query with the shorter keyword list of the superseded validator
\* (no UNION, no file or timing functions).
validate_query_short_list(query) ==
    LET query_upper == upper(query)
    IN  /\ \A k \in 1..13 : ~contains(dangerous_keywords[k], query_upper)
        /\ startswith(strip(query_upper), K_SELECT)
        /\ \A m \in CommentMarkers : ~contains(m, query)
        /\ ~(count(K_SELECT, query_upper) > MaxSelects)
        /\ ~(len(query) > MaxQueryLen)

\* validate_query looking for the keywords in the statement as written, not in its
\* upper-case form.
validate_query_case_sensitive(query) ==
    LET query_upper == upper(query)
    IN  /\ \A k \in 1..Len(dangerous_keywords) :
               ~contains(dangerous_keywords[k], query)
        /\ startswith(strip(query_upper), K_SELECT)
        /\ \A m \in CommentMarkers : ~contains(m, query)
        /\ ~(count(K_SELECT, query_upper) > MaxSelects)
        /\ ~(len(query) > MaxQueryLen)

\* validate_query without UNION in its keyword list.
validate_query_sin_union(query) ==
    LET query_upper == upper(query)
    IN  /\ \A k \in 1..Len(dangerous_keywords) :
               dangerous_keywords[k] # <<"U","N","I","O","N">>
                   => ~contains(dangerous_keywords[k], query_upper)
        /\ startswith(strip(query_upper), K_SELECT)
        /\ \A m \in CommentMarkers : ~contains(m, query)
        /\ ~(count(K_SELECT, query_upper) > MaxSelects)
        /\ ~(len(query) > MaxQueryLen)

validate_query(query) ==
    LET query_upper == upper(query)
    IN  /\ \A k \in 1..Len(dangerous_keywords) :
               ~contains(dangerous_keywords[k], query_upper)
        /\ startswith(strip(query_upper), K_SELECT)
        /\ \A m \in CommentMarkers : ~contains(m, query)
        /\ ~(count(K_SELECT, query_upper) > MaxSelects)
        /\ ~(len(query) > MaxQueryLen)

optimize_query(query) ==
    LET q1 == IF count(K_JOIN, query) > MaxJoins /\ ~contains(K_DISTINCT, upper(query))
              THEN replace_first(query, K_SELECT_, K_SELECT_DISTINCT_)
              ELSE query
    IN  IF ~contains(K_LIMIT, upper(q1)) THEN q1 \o K_LIMIT100 ELSE q1

\* ------------------------------------------------- SQLGenerator: generator

\* The literal pieces of the statement templates, as the f-strings of
\* sql_generator.py spell them (line breaks and indentation included).
T_students_pre ==
    <<"\n"," "," "," "," "," "," "," "," "," "," "," "," ","S","E","L","E","C","T"," ","a",".",
    "m","a","t","r","i","c","u","l","a",","," ","u",".","n","o","m","b","r","e",","," ","u",".",
    "a","p","e","l","l","i","d","o",","," ","c",".","n","o","m","b","r","e"," ","a","s"," ","c",
    "a","r","r","e","r","a",","," ","a",".","c","u","a","t","r","i","m","e","s","t","r","e","_",
    "a","c","t","u","a","l",","," ","a",".","p","r","o","m","e","d","i","o","_","g","e","n","e",
    "r","a","l",","," ","a",".","e","s","t","a","d","o","_","a","l","u","m","n","o","\n"," ",
    " "," "," "," "," "," "," "," "," "," "," ","F","R","O","M"," ","a","l","u","m","n","o","s",
    " ","a","\n"," "," "," "," "," "," "," "," "," "," "," "," ","J","O","I","N"," ","u","s",
    "u","a","r","i","o","s"," ","u"," ","O","N"," ","a",".","u","s","u","a","r","i","o","_","i",
    "d"," ","="," ","u",".","i","d"," ","J","O","I","N"," ","c","a","r","r","e","r","a","s"," ",
    "c"," ","O","N"," ","a",".","c","a","r","r","e","r","a","_","i","d"," ","="," ","c",".","i",
    "d","\n"," "," "," "," "," "," "," "," "," "," "," "," ","W","H","E","R","E"," ">>

T_students_post ==
    <<"\n"," "," "," "," "," "," "," "," "," "," "," "," ","O","R","D","E","R"," ","B","Y"," ",
    "u",".","a","p","e","l","l","i","d","o",","," ","u",".","n","o","m","b","r","e","\n"," ",
    " "," "," "," "," "," "," "," "," "," "," ","L","I","M","I","T"," ","3","0","\n"," "," ",
    " "," "," "," "," "," ">>

T_risk_pre ==
    <<"\n"," "," "," "," "," "," "," "," "," "," "," "," ","S","E","L","E","C","T"," ","D","I",
    "S","T","I","N","C","T"," ","a",".","m","a","t","r","i","c","u","l","a",","," ","u",".","n",
    "o","m","b","r","e",","," ","u",".","a","p","e","l","l","i","d","o",","," ","c",".","n","o",
    "m","b","r","e"," ","a","s"," ","c","a","r","r","e","r","a",","," ","r",".","t","i","p","o",
    "_","r","i","e","s","g","o",","," ","r",".","n","i","v","e","l","_","r","i","e","s","g","o",
    ","," ","r",".","d","e","s","c","r","i","p","c","i","o","n",","," ","r",".","f","e","c","h",
    "a","_","r","e","p","o","r","t","e","\n"," "," "," "," "," "," "," "," "," "," "," "," ",
    "F","R","O","M"," ","r","e","p","o","r","t","e","s","_","r","i","e","s","g","o"," ","r",
    "\n"," "," "," "," "," "," "," "," "," "," "," "," ","J","O","I","N"," ","a","l","u","m",
    "n","o","s"," ","a"," ","O","N"," ","r",".","a","l","u","m","n","o","_","i","d"," ","="," ",
    "a",".","i","d"," ","J","O","I","N"," ","u","s","u","a","r","i","o","s"," ","u"," ","O","N",
    " ","a",".","u","s","u","a","r","i","o","_","i","d"," ","="," ","u",".","i","d"," ","J","O",
    "I","N"," ","c","a","r","r","e","r","a","s"," ","c"," ","O","N"," ","a",".","c","a","r","r",
    "e","r","a","_","i","d"," ","="," ","c",".","i","d","\n"," "," "," "," "," "," "," "," ",
    " "," "," "," ","W","H","E","R","E"," ">>

T_risk_post ==
    <<"\n"," "," "," "," "," "," "," "," "," "," "," "," ","O","R","D","E","R"," ","B","Y"," ",
    "r",".","n","i","v","e","l","_","r","i","e","s","g","o"," ","D","E","S","C",","," ","r",".",
    "f","e","c","h","a","_","r","e","p","o","r","t","e"," ","D","E","S","C","\n"," "," "," ",
    " "," "," "," "," "," "," "," "," ","L","I","M","I","T"," ","4","0","\n"," "," "," "," ",
    " "," "," "," ">>

T_grades_carrera_pre ==
    <<"\n"," "," "," "," "," "," "," "," "," "," "," "," "," "," "," "," ","S","E","L","E","C",
    "T"," ","c",".","n","o","m","b","r","e"," ","a","s"," ","c","a","r","r","e","r","a",",",
    "\n"," "," "," "," "," "," "," "," "," "," "," "," "," "," "," "," "," "," "," "," "," ",
    " "," ","R","O","U","N","D","(","A","V","G","(","a",".","p","r","o","m","e","d","i","o","_",
    "g","e","n","e","r","a","l",")",","," ","2",")"," ","a","s"," ","p","r","o","m","e","d","i",
    "o","_","c","a","r","r","e","r","a",",","\n"," "," "," "," "," "," "," "," "," "," "," ",
    " "," "," "," "," "," "," "," "," "," "," "," ","C","O","U","N","T","(","a",".","i","d",")",
    " ","a","s"," ","t","o","t","a","l","_","a","l","u","m","n","o","s",",","\n"," "," "," ",
    " "," "," "," "," "," "," "," "," "," "," "," "," "," "," "," "," "," "," "," ","R","O","U",
    "N","D","(","M","I","N","(","a",".","p","r","o","m","e","d","i","o","_","g","e","n","e","r",
    "a","l",")",","," ","2",")"," ","a","s"," ","p","r","o","m","e","d","i","o","_","m","i","n",
    "i","m","o",",","\n"," "," "," "," "," "," "," "," "," "," "," "," "," "," "," "," "," ",
    " "," "," "," "," "," ","R","O","U","N","D","(","M","A","X","(","a",".","p","r","o","m","e",
    "d","i","o","_","g","e","n","e","r","a","l",")",","," ","2",")"," ","a","s"," ","p","r","o",
    "m","e","d","i","o","_","m","a","x","i","m","o","\n"," "," "," "," "," "," "," "," "," ",
    " "," "," "," "," "," "," ","F","R","O","M"," ","c","a","r","r","e","r","a","s"," ","c",
    "\n"," "," "," "," "," "," "," "," "," "," "," "," "," "," "," "," ","J","O","I","N"," ",
    "a","l","u","m","n","o","s"," ","a"," ","O","N"," ","c",".","i","d"," ","="," ","a",".","c",
    "a","r","r","e","r","a","_","i","d","\n"," "," "," "," "," "," "," "," "," "," "," "," ",
    " "," "," "," ","W","H","E","R","E"," ","a",".","e","s","t","a","d","o","_","a","l","u","m",
    "n","o"," ","="," ","'","a","c","t","i","v","o","'"," ","\n"," "," "," "," "," "," "," ",
    " "," "," "," "," "," "," "," "," ","A","N","D"," ","a",".","p","r","o","m","e","d","i","o",
    "_","g","e","n","e","r","a","l"," ",">"," ","0","\n"," "," "," "," "," "," "," "," "," ",
    " "," "," "," "," "," "," ","A","N","D"," ","c",".","n","o","m","b","r","e"," ","L","I","K",
    "E"," ","'","%">>

T_grades_carrera_post ==
    <<"%","'","\n"," "," "," "," "," "," "," "," "," "," "," "," "," "," "," "," ","G","R","O",
    "U","P"," ","B","Y"," ","c",".","i","d",","," ","c",".","n","o","m","b","r","e","\n"," ",
    " "," "," "," "," "," "," "," "," "," "," ">>

T_grades_all ==
    <<"\n"," "," "," "," "," "," "," "," "," "," "," "," "," "," "," "," ","S","E","L","E","C",
    "T"," ","c",".","n","o","m","b","r","e"," ","a","s"," ","c","a","r","r","e","r","a",",",
    "\n"," "," "," "," "," "," "," "," "," "," "," "," "," "," "," "," "," "," "," "," "," ",
    " "," ","R","O","U","N","D","(","A","V","G","(","a",".","p","r","o","m","e","d","i","o","_",
    "g","e","n","e","r","a","l",")",","," ","2",")"," ","a","s"," ","p","r","o","m","e","d","i",
    "o","_","c","a","r","r","e","r","a",",","\n"," "," "," "," "," "," "," "," "," "," "," ",
    " "," "," "," "," "," "," "," "," "," "," "," ","C","O","U","N","T","(","a",".","i","d",")",
    " ","a","s"," ","t","o","t","a","l","_","a","l","u","m","n","o","s",",","\n"," "," "," ",
    " "," "," "," "," "," "," "," "," "," "," "," "," "," "," "," "," "," "," "," ","R","O","U",
    "N","D","(","M","I","N","(","a",".","p","r","o","m","e","d","i","o","_","g","e","n","e","r",
    "a","l",")",","," ","2",")"," ","a","s"," ","p","r","o","m","e","d","i","o","_","m","i","n",
    "i","m","o",",","\n"," "," "," "," "," "," "," "," "," "," "," "," "," "," "," "," "," ",
    " "," "," "," "," "," ","R","O","U","N","D","(","M","A","X","(","a",".","p","r","o","m","e",
    "d","i","o","_","g","e","n","e","r","a","l",")",","," ","2",")"," ","a","s"," ","p","r","o",
    "m","e","d","i","o","_","m","a","x","i","m","o","\n"," "," "," "," "," "," "," "," "," ",
    " "," "," "," "," "," "," ","F","R","O","M"," ","c","a","r","r","e","r","a","s"," ","c",
    "\n"," "," "," "," "," "," "," "," "," "," "," "," "," "," "," "," ","J","O","I","N"," ",
    "a","l","u","m","n","o","s"," ","a"," ","O","N"," ","c",".","i","d"," ","="," ","a",".","c",
    "a","r","r","e","r","a","_","i","d","\n"," "," "," "," "," "," "," "," "," "," "," "," ",
    " "," "," "," ","W","H","E","R","E"," ","a",".","e","s","t","a","d","o","_","a","l","u","m",
    "n","o"," ","="," ","'","a","c","t","i","v","o","'"," ","A","N","D"," ","a",".","p","r","o",
    "m","e","d","i","o","_","g","e","n","e","r","a","l"," ",">"," ","0","\n"," "," "," "," ",
    " "," "," "," "," "," "," "," "," "," "," "," ","G","R","O","U","P"," ","B","Y"," ","c",".",
    "i","d",","," ","c",".","n","o","m","b","r","e","\n"," "," "," "," "," "," "," "," "," ",
    " "," "," "," "," "," "," ","O","R","D","E","R"," ","B","Y"," ","p","r","o","m","e","d","i",
    "o","_","c","a","r","r","e","r","a"," ","D","E","S","C","\n"," "," "," "," "," "," "," ",
    " "," "," "," "," ">>

T_search_a ==
    <<"\n"," "," "," "," "," "," "," "," "," "," "," "," ","S","E","L","E","C","T"," ","'","e",
    "s","t","u","d","i","a","n","t","e","'"," ","a","s"," ","t","i","p","o",",","\n"," "," ",
    " "," "," "," "," "," "," "," "," "," "," "," "," "," "," "," "," ","a",".","m","a","t","r",
    "i","c","u","l","a"," ","a","s"," ","i","d","e","n","t","i","f","i","c","a","d","o","r",",",
    "\n"," "," "," "," "," "," "," "," "," "," "," "," "," "," "," "," "," "," "," ","u",".",
    "n","o","m","b","r","e",",","\n"," "," "," "," "," "," "," "," "," "," "," "," "," "," ",
    " "," "," "," "," ","u",".","a","p","e","l","l","i","d","o",",","\n"," "," "," "," "," ",
    " "," "," "," "," "," "," "," "," "," "," "," "," "," ","c",".","n","o","m","b","r","e"," ",
    "a","s"," ","c","a","r","r","e","r","a",",","\n"," "," "," "," "," "," "," "," "," "," ",
    " "," "," "," "," "," "," "," "," ","a",".","p","r","o","m","e","d","i","o","_","g","e","n",
    "e","r","a","l"," ","a","s"," ","d","a","t","o","_","a","d","i","c","i","o","n","a","l",
    "\n"," "," "," "," "," "," "," "," "," "," "," "," ","F","R","O","M"," ","a","l","u","m",
    "n","o","s"," ","a","\n"," "," "," "," "," "," "," "," "," "," "," "," ","J","O","I","N",
    " ","u","s","u","a","r","i","o","s"," ","u"," ","O","N"," ","a",".","u","s","u","a","r","i",
    "o","_","i","d"," ","="," ","u",".","i","d","\n"," "," "," "," "," "," "," "," "," "," ",
    " "," ","J","O","I","N"," ","c","a","r","r","e","r","a","s"," ","c"," ","O","N"," ","a",".",
    "c","a","r","r","e","r","a","_","i","d"," ","="," ","c",".","i","d","\n"," "," "," "," ",
    " "," "," "," "," "," "," "," ","W","H","E","R","E"," ","a",".","e","s","t","a","d","o","_",
    "a","l","u","m","n","o"," ","="," ","'","a","c","t","i","v","o","'"," ","A","N","D"," ","(">>

T_search_b ==
    <<")","\n"," "," "," "," "," "," "," "," "," "," "," "," ","\n"," "," "," "," "," "," "," ",
    " "," "," "," "," ","U","N","I","O","N"," ","A","L","L","\n"," "," "," "," "," "," "," ",
    " "," "," "," "," ","\n"," "," "," "," "," "," "," "," "," "," "," "," ","S","E","L","E",
    "C","T"," ","'","p","r","o","f","e","s","o","r","'"," ","a","s"," ","t","i","p","o",",",
    "\n"," "," "," "," "," "," "," "," "," "," "," "," "," "," "," "," "," "," "," ","p",".",
    "n","u","m","e","r","o","_","e","m","p","l","e","a","d","o"," ","a","s"," ","i","d","e","n",
    "t","i","f","i","c","a","d","o","r",",","\n"," "," "," "," "," "," "," "," "," "," "," ",
    " "," "," "," "," "," "," "," ","u",".","n","o","m","b","r","e",",","\n"," "," "," "," ",
    " "," "," "," "," "," "," "," "," "," "," "," "," "," "," ","u",".","a","p","e","l","l","i",
    "d","o",",","\n"," "," "," "," "," "," "," "," "," "," "," "," "," "," "," "," "," "," ",
    " ","c",".","n","o","m","b","r","e"," ","a","s"," ","c","a","r","r","e","r","a",",","\n",
    " "," "," "," "," "," "," "," "," "," "," "," "," "," "," "," "," "," "," ","p",".","e","x",
    "p","e","r","i","e","n","c","i","a","_","a","n~","o","s"," ","a","s"," ","d","a","t","o",
    "_","a","d","i","c","i","o","n","a","l","\n"," "," "," "," "," "," "," "," "," "," "," ",
    " ","F","R","O","M"," ","p","r","o","f","e","s","o","r","e","s"," ","p","\n"," "," "," ",
    " "," "," "," "," "," "," "," "," ","J","O","I","N"," ","u","s","u","a","r","i","o","s"," ",
    "u"," ","O","N"," ","p",".","u","s","u","a","r","i","o","_","i","d"," ","="," ","u",".","i",
    "d","\n"," "," "," "," "," "," "," "," "," "," "," "," ","J","O","I","N"," ","c","a","r",
    "r","e","r","a","s"," ","c"," ","O","N"," ","p",".","c","a","r","r","e","r","a","_","i","d",
    " ","="," ","c",".","i","d","\n"," "," "," "," "," "," "," "," "," "," "," "," ","W","H",
    "E","R","E"," ","p",".","a","c","t","i","v","o"," ","="," ","T","R","U","E"," ","A","N","D",
    " ","(">>

T_search_c ==
    <<")","\n"," "," "," "," "," "," "," "," "," "," "," "," ","\n"," "," "," "," "," "," "," ",
    " "," "," "," "," ","O","R","D","E","R"," ","B","Y"," ","t","i","p","o",","," ","a","p","e",
    "l","l","i","d","o","\n"," "," "," "," "," "," "," "," "," "," "," "," ","L","I","M","I",
    "T"," ","2","0","\n"," "," "," "," "," "," "," "," ">>

T_total_alumnos ==
    <<"S","E","L","E","C","T"," ","C","O","U","N","T","(","*",")"," ","a","s"," ","t","o","t","a",
    "l"," ","F","R","O","M"," ","a","l","u","m","n","o","s"," ","W","H","E","R","E"," ","e","s",
    "t","a","d","o","_","a","l","u","m","n","o"," ","="," ","'","a","c","t","i","v","o","'">>

T_total_profesores ==
    <<"S","E","L","E","C","T"," ","C","O","U","N","T","(","*",")"," ","a","s"," ","t","o","t","a",
    "l"," ","F","R","O","M"," ","p","r","o","f","e","s","o","r","e","s"," ","W","H","E","R","E",
    " ","a","c","t","i","v","o"," ","="," ","T","R","U","E">>

T_total_carreras ==
    <<"S","E","L","E","C","T"," ","C","O","U","N","T","(","*",")"," ","a","s"," ","t","o","t","a",
    "l"," ","F","R","O","M"," ","c","a","r","r","e","r","a","s"," ","W","H","E","R","E"," ","a",
    "c","t","i","v","a"," ","="," ","T","R","U","E">>

T_promedio_general ==
    <<"S","E","L","E","C","T"," ","R","O","U","N","D","(","A","V","G","(","p","r","o","m","e","d",
    "i","o","_","g","e","n","e","r","a","l",")",","," ","2",")"," ","a","s"," ","p","r","o","m",
    "e","d","i","o"," ","F","R","O","M"," ","a","l","u","m","n","o","s"," ","W","H","E","R","E",
    " ","e","s","t","a","d","o","_","a","l","u","m","n","o"," ","="," ","'","a","c","t","i","v",
    "o","'"," ","A","N","D"," ","p","r","o","m","e","d","i","o","_","g","e","n","e","r","a","l",
    " ",">"," ","0">>

T_fallback ==
    <<"S","E","L","E","C","T"," ","'","N","o"," ","s","e"," ","p","u","d","o"," ","p","r","o","c",
    "e","s","a","r"," ","l","a"," ","c","o","n","s","u","l","t","a","'"," ","a","s"," ","m","e",
    "n","s","a","j","e">>

T_activos ==
    <<"a",".","e","s","t","a","d","o","_","a","l","u","m","n","o"," ","="," ","'","a","c","t","i",
    "v","o","'">>

T_abiertos ==
    <<"r",".","e","s","t","a","d","o"," ","I","N"," ","(","'","a","b","i","e","r","t","o","'",",",
    " ","'","e","n","_","p","r","o","c","e","s","o","'",")">>

T_AND ==
    <<" ","A","N","D"," ">>

T_OR ==
    <<" ","O","R"," ">>

T_carrera_like ==
    <<"c",".","n","o","m","b","r","e"," ","L","I","K","E"," ","'","%">>

T_like_end ==
    <<"%","'">>

T_cuatrimestre_eq ==
    <<"a",".","c","u","a","t","r","i","m","e","s","t","r","e","_","a","c","t","u","a","l"," ","=",
    " ">>

T_tipo_eq ==
    <<"r",".","t","i","p","o","_","r","i","e","s","g","o"," ","="," ","'">>

T_nivel_eq ==
    <<"r",".","n","i","v","e","l","_","r","i","e","s","g","o"," ","="," ","'">>

T_quote ==
    <<"'">>

T_nombre_like ==
    <<"u",".","n","o","m","b","r","e"," ","L","I","K","E"," ","'","%">>

T_apellido_like ==
    <<"u",".","a","p","e","l","l","i","d","o"," ","L","I","K","E"," ","'","%">>

T_matricula_like ==
    <<"a",".","m","a","t","r","i","c","u","l","a"," ","L","I","K","E"," ","'","%">>

T_self_like ==
    <<"'"," ","L","I","K","E"," ","'","%">>

T_a_matricula ==
    <<"a",".","m","a","t","r","i","c","u","l","a">>

T_p_numero_empleado ==
    <<"p",".","n","u","m","e","r","o","_","e","m","p","l","e","a","d","o">>

\* The 'description' of each spec (accents dropped).
T_desc_students ==
    <<"C","o","n","s","u","l","t","a"," ","d","e"," ","p","r","o","f","e","s","o","r","e","s">>

T_desc_risk ==
    <<"C","o","n","s","u","l","t","a"," ","d","e"," ","a","l","u","m","n","o","s"," ","e","n"," ",
    "r","i","e","s","g","o">>

T_desc_grades ==
    <<"C","o","n","s","u","l","t","a"," ","d","e"," ","p","r","o","m","e","d","i","o","s"," ","p",
    "o","r"," ","c","a","r","r","e","r","a">>

T_desc_search ==
    <<"B","u","s","q","u","e","d","a"," ","e","s","p","e","c","i","f","i","c","a">>

T_desc_fallback ==
    <<"C","o","n","s","u","l","t","a"," ","d","e"," ","r","e","s","p","a","l","d","o">>

Digits == {"0", "1", "2", "3", "4", "5", "6", "7", "8", "9"}

\* str.isdigit()
isdigit(t) == t # << >> /\ \A i \in 1..Len(t) : t[i] \in Digits

\* sep.join(parts)
RECURSIVE join(_, _)
join(sep, parts) ==
    IF parts = << >> THEN << >>
    ELSE IF Len(parts) = 1 THEN parts[1]
    ELSE parts[1] \o sep \o join(sep, Tail(parts))

\* t.replace(old, new)
RECURSIVE replace_all(_, _, _)
replace_all(t, old, new) ==
    LET P == {p \in 1..(Len(t) - Len(old) + 1) : MatchAt(old, t, p)}
    IN  IF P = {} THEN t
        ELSE SubSeq(t, 1, Min(P) - 1) \o new
             \o replace_all(SubSeq(t, Min(P) + Len(old), Len(t)), old, new)

\* search_conditions[:6]
MaxSearchConditions == 6

\* An exception raised inside a builder, as a value the caller inspects.
Raised(name) == [exception |-> name]
IsRaised(r) == "exception" \in DOMAIN r

_generate_fallback_query ==
    [query_type |-> "single", query |-> T_fallback, description |-> T_desc_fallback]

\* The statistics spec without its last label.
_generate_stats_queries_sin_promedio ==
    [query_type |-> "multiple",
     queries |-> << [key |-> "total_alumnos",    query |-> T_total_alumnos],
                    [key |-> "total_profesores", query |-> T_total_profesores],
                    [key |-> "total_carreras",   query |-> T_total_carreras] >>]

_generate_stats_queries ==
    [query_type |-> "multiple",
     queries |-> << [key |-> "total_alumnos",    query |-> T_total_alumnos],
                    [key |-> "total_profesores", query |-> T_total_profesores],
                    [key |-> "total_carreras",   query |-> T_total_carreras],
                    [key |-> "promedio_general", query |-> T_promedio_general] >>]

\* The three LIKE conditions _generate_students_query adds per search term.
RECURSIVE students_search_conditions(_)
students_search_conditions(terms) ==
    IF terms = << >> THEN << >>
    ELSE << T_nombre_like \o Head(terms) \o T_like_end,
            T_apellido_like \o Head(terms) \o T_like_end,
            T_matricula_like \o Head(terms) \o T_like_end >>
         \o students_search_conditions(Tail(terms))

_generate_students_query(entities, search_terms) ==
    LET c0 == << T_activos >>
        c1 == IF entities.carreras # << >>
              THEN Append(c0, T_carrera_like \o entities.carreras[1] \o T_like_end)
              ELSE c0
        c2 == IF entities.cuatrimestres # << >> /\ isdigit(entities.cuatrimestres[1])
              THEN Append(c1, T_cuatrimestre_eq \o entities.cuatrimestres[1])
              ELSE c1
        c3 == IF search_terms # << >>
              THEN Append(c2, <<"(">> \o join(T_OR, students_search_conditions(search_terms))
                              \o <<")">>)
              ELSE c2
    IN  [query_type |-> "single",
         query |-> strip(T_students_pre \o join(T_AND, c3) \o T_students_post),
         description |-> T_desc_students]

\* A teachers builder, were one defined: a statement over profesores.
_generate_teachers_query_presente(entities, search_terms) ==
    [query_type |-> "single",
     query |->
         <<"S","E","L","E","C","T"," ","p",".","n","u","m","e","r","o","_","e","m","p","l","e",
          "a","d","o",","," ","u",".","n","o","m","b","r","e"," ","F","R","O","M"," ","p","r",
          "o","f","e","s","o","r","e","s"," ","p"," ","J","O","I","N"," ","u","s","u","a","r",
          "i","o","s"," ","u"," ","O","N"," ","p",".","u","s","u","a","r","i","o","_","i","d",
          " ","="," ","u",".","i","d"," ","L","I","M","I","T"," ","3","0">>,
     description |-> T_desc_students]

\* self._generate_teachers_query is not defined: the call raises AttributeError.
_generate_teachers_query(entities, search_terms) == Raised("AttributeError")

_generate_risk_query(entities) ==
    LET c0 == << T_abiertos >>
        c1 == IF entities.tipos_riesgo # << >>
              THEN Append(c0, T_tipo_eq \o entities.tipos_riesgo[1] \o T_quote)
              ELSE c0
        c2 == IF entities.niveles_riesgo # << >>
              THEN Append(c1, T_nivel_eq \o entities.niveles_riesgo[1] \o T_quote)
              ELSE c1
        c3 == IF entities.carreras # << >>
              THEN Append(c2, T_carrera_like \o entities.carreras[1] \o T_like_end)
              ELSE c2
    IN  [query_type |-> "single",
         query |-> strip(T_risk_pre \o join(T_AND, c3) \o T_risk_post),
         description |-> T_desc_risk]

_generate_grades_query(entities) ==
    [query_type |-> "single",
     query |-> IF entities.carreras # << >>
               THEN strip(T_grades_carrera_pre \o entities.carreras[1]
                          \o T_grades_carrera_post)
               ELSE strip(T_grades_all),
     description |-> T_desc_grades]

\* The loop of _generate_search_query: the third condition of a term names
\* a.matricula only when the list built so far holds the string 'a.matricula'.
RECURSIVE search_conditions_from(_, _)
search_conditions_from(acc, terms) ==
    IF terms = << >> THEN acc
    ELSE LET term == Head(terms)
             third == IF \E k \in 1..Len(acc) : acc[k] = T_a_matricula
                      THEN T_matricula_like \o term \o T_like_end
                      ELSE T_quote \o term \o T_self_like \o term \o T_like_end
         IN  search_conditions_from(
                 acc \o << T_nombre_like \o term \o T_like_end,
                           T_apellido_like \o term \o T_like_end,
                           third >>,
                 Tail(terms))

_generate_search_query(entities, search_terms) ==
    IF search_terms = << >> THEN _generate_fallback_query
    ELSE LET conds == search_conditions_from(<< >>, search_terms)
             first == SubSeq(conds, 1, IF Len(conds) < MaxSearchConditions
                                       THEN Len(conds) ELSE MaxSearchConditions)
             search_clause == join(T_OR, first)
         IN  [query_type |-> "single",
              query |-> strip(T_search_a \o search_clause \o T_search_b
                              \o replace_all(search_clause, T_a_matricula,
                                             T_p_numero_empleado)
                              \o T_search_c),
              description |-> T_desc_search]

_generate_general_query(search_terms) ==
    IF search_terms # << >>
    THEN _generate_search_query(<< >>, search_terms)
    ELSE _generate_stats_queries

\* The if/elif chain of generate_query, before its except clause.
dispatch_query(intent, entities, search_terms) ==
    CASE intent = "estadisticas_generales"  -> _generate_stats_queries
      [] intent = "consulta_alumnos"        -> _generate_students_query(entities, search_terms)
      [] intent = "consulta_profesores"     -> _generate_teachers_query(entities, search_terms)
      [] intent = "alumnos_riesgo"          -> _generate_risk_query(entities)
      [] intent = "calificaciones_promedio" -> _generate_grades_query(entities)
      [] intent = "busqueda_especifica"     -> _generate_search_query(entities, search_terms)
      [] OTHER                              -> _generate_general_query(search_terms)

\* generate_query without its try/except: what the builder raises reaches
\* the caller.
generate_query_no_except(intent, entities, search_terms) ==
    dispatch_query(intent, entities, search_terms)

generate_query(intent, entities, search_terms) ==
    LET r == dispatch_query(intent, entities, search_terms)
    IN  IF IsRaised(r) THEN _generate_fallback_query ELSE r

\* ------------------------------------------------------- statement inputs

\* Pieces the checked statement texts are put together from: both casings
\* of SELECT, SELECT without a following space, nested SELECTs, one and
\* three JOINs, DISTINCT, a lower-case LIMIT, blacklisted words, comment
\* markers, leading whitespace, a plain letter and a 1990-character run.
Fragments == <<
    <<"S","E","L","E","C","T"," ">>,
    <<"s","e","l","e","c","t"," ">>,
    <<"S","E","L","E","C","T">>,
    <<"S","E","L","E","C","T"," ","(","S","E","L","E","C","T"," ">>,
    <<" ","J","O","I","N"," ","t">>,
    <<" ","J","O","I","N"," ","a"," ","J","O","I","N"," ","b"," ","J","O","I","N"," ","c">>,
    <<"D","I","S","T","I","N","C","T"," ">>,
    <<" ","l","i","m","i","t"," ","5">>,
    <<"U","N","I","O","N"," ">>,
    <<"D","r","o","p"," ">>,
    <<"-","-">>,
    <<"/","*">>,
    <<" ">>,
    <<"x">>,
    <<"z*1990">>
>>

MaxFrags == 3
MaxOptimize == 2

RECURSIVE Concat(_)
Concat(fs) == IF fs = << >> THEN << >> ELSE Fragments[Head(fs)] \o Concat(Tail(fs))

TextInputs ==
    {Concat(fs) : fs \in UNION {[1..n -> 1..Len(Fragments)] : n \in 0..MaxFrags}}

\* ------------------------------------------------------ conversation memory

\* "Mantener solo últimas 10 interacciones"
MemoryCap == 10

\* s[-n:]
last(s, n) == IF Len(s) <= n THEN s ELSE SubSeq(s, Len(s) - n + 1, Len(s))

\* s[:n]
first(s, n) == IF Len(s) <= n THEN s ELSE SubSeq(s, 1, n)

\* _actualizar_memoria_conversacional without its trim to the last 10.
_actualizar_memoria_no_trim(memory, conversacion_id, entrada) ==
    LET m0 == IF conversacion_id \notin DOMAIN memory
              THEN memory @@ (conversacion_id :> << >>)
              ELSE memory
    IN  [m0 EXCEPT ![conversacion_id] = Append(@, entrada)]

\* _actualizar_memoria_conversacional keeping the first 10 ([:10]) instead
\* of the last 10.
_actualizar_memoria_keep_first(memory, conversacion_id, entrada) ==
    LET m0 == IF conversacion_id \notin DOMAIN memory
              THEN memory @@ (conversacion_id :> << >>)
              ELSE memory
        m1 == [m0 EXCEPT ![conversacion_id] = Append(@, entrada)]
    IN  IF Len(m1[conversacion_id]) > MemoryCap
        THEN [m1 EXCEPT ![conversacion_id] = first(@, MemoryCap)]
        ELSE m1

\* _actualizar_memoria_conversacional skipping a message equal to the last one kept.
_actualizar_memoria_dedup(memory, conversacion_id, entrada) ==
    LET m0 == IF conversacion_id \notin DOMAIN memory
              THEN memory @@ (conversacion_id :> << >>)
              ELSE memory
        prev == m0[conversacion_id]
        m1 == IF prev # << >> /\ prev[Len(prev)].mensaje_usuario = entrada.mensaje_usuario
              THEN m0
              ELSE [m0 EXCEPT ![conversacion_id] = Append(@, entrada)]
    IN  IF Len(m1[conversacion_id]) > MemoryCap
        THEN [m1 EXCEPT ![conversacion_id] = last(@, MemoryCap)]
        ELSE m1

\* _actualizar_memoria_conversacional with its first test turned round: the list of a
\* conversation that has one is emptied before the append.
_actualizar_memoria_reinicia(memory, conversacion_id, entrada) ==
    LET m0 == IF conversacion_id \in DOMAIN memory
              THEN [memory EXCEPT ![conversacion_id] = << >>]
              ELSE memory @@ (conversacion_id :> << >>)
        m1 == [m0 EXCEPT ![conversacion_id] = Append(@, entrada)]
    IN  IF Len(m1[conversacion_id]) > MemoryCap
        THEN [m1 EXCEPT ![conversacion_id] = last(@, MemoryCap)]
        ELSE m1

\* _actualizar_memoria_conversacional with one list shared by every conversation
\* id: the append shows in all of them.
_actualizar_memoria_compartida(memory, conversacion_id, entrada) ==
    LET m0 == IF conversacion_id \notin DOMAIN memory
              THEN memory @@ (conversacion_id :> << >>)
              ELSE memory
        m1 == [k \in DOMAIN m0 |-> Append(m0[k], entrada)]
    IN  [k \in DOMAIN m1 |-> IF Len(m1[k]) > MemoryCap THEN last(m1[k], MemoryCap)
                             ELSE m1[k]]

\* ChatBotAI._actualizar_memoria_conversacional: the new value of
\* self.conversation_memory after entrada is appended for conversacion_id.
_actualizar_memoria_conversacional(memory, conversacion_id, entrada) ==
    LET m0 == IF conversacion_id \notin DOMAIN memory
              THEN memory @@ (conversacion_id :> << >>)
              ELSE memory
        m1 == [m0 EXCEPT ![conversacion_id] = Append(@, entrada)]
    IN  IF Len(m1[conversacion_id]) > MemoryCap
        THEN [m1 EXCEPT ![conversacion_id] = last(@, MemoryCap)]
        ELSE m1

\* self.conversation_memory.get(conversacion_id, [])
memory_get(memory, conversacion_id) ==
    IF conversacion_id \in DOMAIN memory THEN memory[conversacion_id] ELSE << >>

\* ConversationAI._add_to_history: the new value of self.conversation_history.
_add_to_history(history, exchange) ==
    LET h1 == Append(history, exchange)
    IN  IF Len(h1) > MemoryCap THEN last(h1, MemoryCap) ELSE h1

\* ConversationAI.clear_context: conversation_history.clear()
clear_context(history) == << >>

\* ------------------------------------------------------------ NLPProcessor

\* An accented letter is held as one element: the letter followed by ' (n~ for the
\* n-tilde).
Accents ==
    ("a'" :> "a") @@ ("e'" :> "e") @@ ("i'" :> "i") @@ ("o'" :> "o") @@ ("u'" :> "u") @@
    ("n~" :> "n")

\* str.lower() on the characters used.
LowMap ==
    [ch \in {UpMap[x] : x \in DOMAIN UpMap} |-> CHOOSE x \in DOMAIN UpMap : UpMap[x] = ch]
    @@ ("A'" :> "a'") @@ ("E'" :> "e'") @@ ("I'" :> "i'") @@ ("O'" :> "o'") @@ ("U'" :> "u'")

lower(t) == [i \in 1..Len(t) |-> IF t[i] \in DOMAIN LowMap THEN LowMap[t[i]] ELSE t[i]]

\* ''.join(c for c in unicodedata.normalize('NFD', text) if category(c) != 'Mn')
strip_accents(t) ==
    [i \in 1..Len(t) |-> IF t[i] \in DOMAIN Accents THEN Accents[t[i]] ELSE t[i]]

\* The characters \w matches.
WordChars ==
    DOMAIN UpMap \cup {UpMap[x] : x \in DOMAIN UpMap} \cup DOMAIN LowMap
    \cup DOMAIN Accents \cup Digits \cup {"_"}

\* re.sub(r'[^\w\s]', ' ', text)
blank_specials(t) ==
    [i \in 1..Len(t) |-> IF t[i] \in WordChars \cup Whitespace THEN t[i] ELSE " "]

\* text.split()
RECURSIVE split(_)
split(t) ==
    LET ns == {i \in 1..Len(t) : t[i] \notin Whitespace}
    IN  IF ns = {} THEN << >>
        ELSE LET b == Min(ns)
                 ws == {i \in b..Len(t) : t[i] \in Whitespace}
                 e == IF ws = {} THEN Len(t) ELSE Min(ws) - 1
             IN  <<SubSeq(t, b, e)>> \o split(SubSeq(t, e + 1, Len(t)))

\* re.sub(r'\s+', ' ', text).strip()
collapse_spaces(t) == join(<<" ">>, split(t))

normalize_text(text) == collapse_spaces(blank_specials(strip_accents(lower(text))))

stopwords ==
    {<<"e","l">>,
    <<"l","a">>,
    <<"d","e">>,
    <<"q","u","e">>,
    <<"y">>,
    <<"a">>,
    <<"e","n">>,
    <<"u","n">>,
    <<"e","s">>,
    <<"s","e">>,
    <<"n","o">>,
    <<"t","e">>,
    <<"l","o">>,
    <<"l","e">>,
    <<"d","a">>,
    <<"s","u">>,
    <<"p","o","r">>,
    <<"s","o","n">>,
    <<"c","o","n">>,
    <<"p","a","r","a">>,
    <<"a","l">>,
    <<"d","e","l">>,
    <<"l","o","s">>,
    <<"l","a","s">>,
    <<"u","n","a">>,
    <<"h","a","y">>,
    <<"e","s","t","a'">>,
    <<"p","e","r","o">>,
    <<"s","u","s">>,
    <<"m","e">>,
    <<"y","o">>,
    <<"m","i">>,
    <<"t","u">>,
    <<"s","i">>,
    <<"c","o","m","o">>,
    <<"e","s","t","e">>,
    <<"e","s","t","a">>,
    <<"e","s","t","o","s">>,
    <<"e","s","t","a","s">>,
    <<"e","s","e">>,
    <<"e","s","a">>,
    <<"e","s","o","s">>,
    <<"e","s","a","s">>,
    <<"a","q","u","e","l">>,
    <<"a","q","u","e","l","l","a">>,
    <<"a","q","u","e","l","l","o","s">>,
    <<"a","q","u","e","l","l","a","s">>}

\* self.synonyms.values(), in the order of the dictionary.
synonym_groups ==
    <<<<<<"a","l","u","m","n","o","s">>,
      <<"e","s","t","u","d","i","a","n","t","e">>,
      <<"a","l","u","m","n","o">>,
      <<"e","d","u","c","a","n","d","o","s">>>>,
    <<<<"d","o","c","e","n","t","e","s">>,
      <<"m","a","e","s","t","r","o","s">>,
      <<"a","c","a","d","e'","m","i","c","o","s">>,
      <<"i","n","s","t","r","u","c","t","o","r","e","s">>>>,
    <<<<"n","o","t","a","s">>,
      <<"p","u","n","t","u","a","c","i","o","n","e","s">>,
      <<"e","v","a","l","u","a","c","i","o","n","e","s">>,
      <<"s","c","o","r","e","s">>>>,
    <<<<"m","e","d","i","a">>,
      <<"p","r","o","m","e","d","i","o"," ","g","e","n","e","r","a","l">>,
      <<"r","e","n","d","i","m","i","e","n","t","o">>>>,
    <<<<"p","r","o","g","r","a","m","a","s">>,
      <<"l","i","c","e","n","c","i","a","t","u","r","a","s">>,
      <<"e","s","p","e","c","i","a","l","i","d","a","d","e","s">>>>,
    <<<<"c","a","n","t","i","d","a","d">>,
      <<"n","u'","m","e","r","o">>,
      <<"t","o","t","a","l">>,
      <<"q","u","e'"," ","c","a","n","t","i","d","a","d">>>>,
    <<<<"p","r","o","b","l","e","m","a","s">>,
      <<"d","i","f","i","c","u","l","t","a","d","e","s">>,
      <<"e","n"," ","p","e","l","i","g","r","o">>,
      <<"c","o","m","p","l","i","c","a","c","i","o","n","e","s">>>>,
    <<<<"d","a","t","o","s">>,
      <<"n","u'","m","e","r","o","s">>,
      <<"i","n","f","o","r","m","a","c","i","o'","n">>,
      <<"m","e'","t","r","i","c","a","s">>>>>>

query_words ==
    {<<"c","u","a","n","t","o","s">>,
    <<"c","o","m","o">>,
    <<"d","o","n","d","e">>,
    <<"c","u","a","n","d","o">>,
    <<"p","o","r","q","u","e">>,
    <<"c","u","a","l">>,
    <<"q","u","e">>,
    <<"d","a","m","e">>,
    <<"m","u","e","s","t","r","a">>,
    <<"b","u","s","c","a">>}

\* [x for x in s if keep(x)]
RECURSIVE filter_words(_, _, _)
filter_words(ws, drop, min_len) ==
    IF ws = << >> THEN << >>
    ELSE (IF Head(ws) \notin drop /\ Len(Head(ws)) > min_len THEN <<Head(ws)>> ELSE << >>)
         \o filter_words(Tail(ws), drop, min_len)

extract_search_terms(text) ==
    filter_words(filter_words(split(normalize_text(text)), stopwords, 2), query_words, 0)

\* difflib.SequenceMatcher.find_longest_match on a[alo..ahi-1], b[blo..bhi-1]: the
\* longest common block, of those the one that starts earliest in a, of those the
\* one that starts earliest in b (no junk; texts stay below the 200 characters at
\* which autojunk sets in).
find_longest_match(a, b, alo, ahi, blo, bhi) ==
    LET blocks == {m \in (alo..(ahi - 1)) \X (blo..(bhi - 1)) \X (1..(ahi - alo)) :
                       /\ m[1] + m[3] <= ahi
                       /\ m[2] + m[3] <= bhi
                       /\ \A d \in 0..(m[3] - 1) : a[m[1] + d] = b[m[2] + d]}
    IN  IF blocks = {} THEN <<alo, blo, 0>>
        ELSE LET k == Max({m[3] : m \in blocks})
                 i == Min({m[1] : m \in {x \in blocks : x[3] = k}})
                 j == Min({m[2] : m \in {x \in blocks : x[3] = k /\ x[1] = i}})
             IN  <<i, j, k>>

\* The total size of get_matching_blocks(): the longest block, then the same to
\* its left and to its right.
RECURSIVE matching_size(_, _, _, _, _, _)
matching_size(a, b, alo, ahi, blo, bhi) ==
    LET m == find_longest_match(a, b, alo, ahi, blo, bhi)
    IN  IF m[3] = 0 THEN 0
        ELSE m[3]
             + (IF alo < m[1] /\ blo < m[2]
                THEN matching_size(a, b, alo, m[1], blo, m[2]) ELSE 0)
             + (IF m[1] + m[3] < ahi /\ m[2] + m[3] < bhi
                THEN matching_size(a, b, m[1] + m[3], ahi, m[2] + m[3], bhi) ELSE 0)

\* A number of the score arithmetic, as the fraction n/d (d > 0).
Frac(n, d) == [n |-> n, d |-> d]
frac_lt(x, y) == x.n * y.d < y.n * x.d
frac_max(x, y) == IF frac_lt(x, y) THEN y ELSE x

\* SequenceMatcher(None, a, b).ratio(): 2.0 * matches / length, 1.0 for two empty texts
ratio(a, b) ==
    IF Len(a) + Len(b) = 0 THEN Frac(1, 1)
    ELSE Frac(2 * matching_size(a, b, 1, Len(a) + 1, 1, Len(b) + 1), Len(a) + Len(b))

\* intent_data.get('keywords', []), intent_data.get('patterns', [])
get_keywords(intent_data) ==
    IF "keywords" \in DOMAIN intent_data THEN intent_data.keywords ELSE << >>
get_patterns(intent_data) ==
    IF "patterns" \in DOMAIN intent_data THEN intent_data.patterns ELSE << >>

P_carrera == <<"{","c","a","r","r","e","r","a","}">>
P_nombre == <<"{","n","o","m","b","r","e","}">>

\* What one keyword adds to keyword_score, in tenths: 1 when its normalized form is
\* in the text, and 0.8 for every synonym group that lists the keyword as written
\* and has a member in the text.
keyword_points(keyword, normalized_text) ==
    (IF contains(normalize_text(keyword), normalized_text) THEN 10 ELSE 0)
    + 8 * Cardinality({g \in 1..Len(synonym_groups) :
              /\ \E s \in 1..Len(synonym_groups[g]) : synonym_groups[g][s] = keyword
              /\ \E s \in 1..Len(synonym_groups[g]) :
                     contains(synonym_groups[g][s], normalized_text)})

RECURSIVE sum_points(_, _)
sum_points(keywords, normalized_text) ==
    IF keywords = << >> THEN 0
    ELSE keyword_points(Head(keywords), normalized_text)
         + sum_points(Tail(keywords), normalized_text)

RECURSIVE best_pattern(_, _, _)
best_pattern(patterns, normalized_text, pattern_score) ==
    IF patterns = << >> THEN pattern_score
    ELSE LET pattern_norm ==
                 normalize_text(replace_all(replace_all(Head(patterns), P_carrera, << >>),
                                            P_nombre, << >>))
         IN  best_pattern(Tail(patterns), normalized_text,
                          frac_max(pattern_score, ratio(normalized_text, pattern_norm)))

\* keyword_score * 0.6 + pattern_score * 0.4, the numbers held exactly.
calculate_intent_similarity(text, intent_data) ==
    LET normalized_text == normalize_text(text)
        keywords == get_keywords(intent_data)
        total_keywords == IF Len(keywords) > 1 THEN Len(keywords) ELSE 1
        points == sum_points(keywords, normalized_text)
        pattern_score == best_pattern(get_patterns(intent_data), normalized_text, Frac(0, 1))
    IN  Frac(6 * points * pattern_score.d + 40 * total_keywords * pattern_score.n,
             100 * total_keywords * pattern_score.d)

\* self.intents_data.get('intents', {}).items(), in the order of the file
get_intents(intents_data) ==
    IF "intents" \in DOMAIN intents_data THEN intents_data.intents ELSE << >>

\* The loop of classify_intent over the catalog from its i-th intent on.
RECURSIVE best_of(_, _, _, _)
best_of(text, intents, i, best) ==
    IF i > Len(intents) THEN best
    ELSE LET score == calculate_intent_similarity(text, intents[i].data)
         IN  best_of(text, intents, i + 1,
                     IF frac_lt(best.score, score)
                     THEN [intent |-> intents[i].name, score |-> score]
                     ELSE best)

\* if best_score < 0.3, with the comparison turned round.
apply_threshold_le(best) ==
    IF ~frac_lt(Frac(3, 10), best.score)
    THEN [intent |-> "general", confidence |-> Frac(5, 10)]
    ELSE [intent |-> best.intent, confidence |-> best.score]

\* if best_score < 0.3: best_intent = "general"; best_score = 0.5
apply_threshold(best) ==
    IF frac_lt(best.score, Frac(3, 10))
    THEN [intent |-> "general", confidence |-> Frac(5, 10)]
    ELSE [intent |-> best.intent, confidence |-> best.score]

\* self.intents_data.get('entities', {}).get(kind, [])
get_entities(intents_data, kind) ==
    IF "entities" \in DOMAIN intents_data /\ kind \in DOMAIN intents_data.entities
    THEN intents_data.entities[kind] ELSE << >>

RECURSIVE select_carreras(_, _)
select_carreras(carreras, normalized_text) ==
    IF carreras = << >> THEN << >>
    ELSE LET carrera_norm == normalize_text(Head(carreras))
             words == split(carrera_norm)
         IN  (IF \/ contains(carrera_norm, normalized_text)
                 \/ \E w \in 1..Len(words) : contains(words[w], normalized_text)
              THEN <<Head(carreras)>> ELSE << >>)
             \o select_carreras(Tail(carreras), normalized_text)

RECURSIVE select_cuatrimestres(_, _)
select_cuatrimestres(cuatris, normalized_text) ==
    IF cuatris = << >> THEN << >>
    ELSE (IF contains(normalize_text(Head(cuatris)), normalized_text)
          THEN <<Head(cuatris)>> ELSE << >>)
         \o select_cuatrimestres(Tail(cuatris), normalized_text)

\* extract_entities filling the risk types and levels from the catalog the way it
\* fills cuatrimestres.
extract_entities_con_riesgo(text, intents_data) ==
    [carreras |-> select_carreras(get_entities(intents_data, "carreras"),
                                  normalize_text(text)),
     cuatrimestres |-> select_cuatrimestres(get_entities(intents_data, "cuatrimestres"),
                                            normalize_text(text)),
     tipos_riesgo |-> select_cuatrimestres(get_entities(intents_data, "tipos_riesgo"),
                                           normalize_text(text)),
     niveles_riesgo |-> select_cuatrimestres(get_entities(intents_data, "niveles_riesgo"),
                                             normalize_text(text))]

\* The categories extract_entities fills from the catalog; tipos_riesgo and
\* niveles_riesgo stay empty, numeros and nombres are read by no code.
extract_entities(text, intents_data) ==
    [carreras |-> select_carreras(get_entities(intents_data, "carreras"),
                                  normalize_text(text)),
     cuatrimestres |-> select_cuatrimestres(get_entities(intents_data, "cuatrimestres"),
                                            normalize_text(text)),
     tipos_riesgo |-> << >>,
     niveles_riesgo |-> << >>]

classify_intent(text, intents_data) ==
    LET r == apply_threshold(best_of(text, get_intents(intents_data), 1,
                                     [intent |-> "general", score |-> Frac(0, 1)]))
    IN  [intent |-> r.intent, confidence |-> r.confidence,
         entities |-> extract_entities(text, intents_data)]

\* The intents the checked catalogs are put together from.

I_consulta_alumnos ==
    [name |-> "consulta_alumnos", data |->
    [keywords |-> <<<<"a","l","u","m","n","o","s">>,
        <<"e","s","t","u","d","i","a","n","t","e","s">>>>,
     patterns |-> <<<<"a","l","u","m","n","o","s"," ","d","e"," ","{","c","a","r","r","e","r","a","}">>>>]]

I_estadisticas_generales ==
    [name |-> "estadisticas_generales", data |->
    [keywords |-> <<<<"e","s","t","a","d","i'","s","t","i","c","a","s">>,
        <<"t","o","t","a","l">>>>,
     patterns |-> <<<<"c","u","a'","n","t","o","s"," ","h","a","y","?">>>>]]

I_solo_alumnos ==
    [name |-> "solo_alumnos", data |->
    [keywords |-> <<<<"a","l","u","m","n","o","s">>>>,
     patterns |-> <<>>]]

I_horarios ==
    [name |-> "horarios", data |->
    [patterns |-> <<<<"h","o","r","a","r","i","o","s">>>>]]

I_vacio ==
    [name |-> "vacio", data |->
    [x \in {} |-> << >>]]

I_busqueda_especifica ==
    [name |-> "busqueda_especifica", data |->
    [keywords |-> <<<<"b","u","s","c","a">>>>,
     patterns |-> <<<<"b","u","s","c","a"," ","a"," ","{","n","o","m","b","r","e","}">>>>]]

I_umbral ==
    [name |-> "umbral", data |->
    [keywords |-> <<<<"x","y","z">>,
        <<"h","o","r","a","r","i","o">>>>,
     patterns |-> <<>>]]

E_catalogo ==
    [carreras |-> <<<<"I","S","C">>,
        <<"I","n","g","e","n","i","e","r","i'","a"," ","C","i","v","i","l">>>>,
     cuatrimestres |-> <<<<"t","e","r","c","e","r","o">>,
        <<"3">>>>]

M_vacio == << >>

M_alumnos == <<"a","l","u","m","n","o","s">>

M_alumnos_de_isc == <<"A","l","u","m","n","o","s"," ","d","e"," ","I","S","C">>

M_cuantos_hay == <<"C","u","a'","n","t","o","s"," ","h","a","y","?">>

M_horarios == <<"h","o","r","a","r","i","o","s">>

M_total == <<"t","o","t","a","l">>

M_xyz == <<"x","y","z">>

M_drop_table_alumnos == <<"D","R","O","P"," ","T","A","B","L","E"," ","a","l","u","m","n","o","s">>

M_busca_a_ana == <<"b","u","s","c","a"," ","a"," ","A","n","a">>

M_hora == <<"h","o","r","a">>

M_dame_el_numero_total == <<"d","a","m","e"," ","e","l"," ","n","u'","m","e","r","o"," ","t","o","t","a","l">>

M_que_tal == <<"q","u","e"," ","t","a","l">>

M_civil_e_isc == <<"c","i","v","i","l"," ","e"," ","I","S","C">>

\* The catalogs intents.json may hold: none (the file is missing or has no intents),
\* one intent, several in either order, intents without keywords or patterns.

Catalogs ==
    {[entities |-> [x \in {} |-> << >>]],
     [intents |-> <<>>, entities |-> [x \in {} |-> << >>]],
     [intents |-> <<I_consulta_alumnos>>, entities |-> E_catalogo],
     [intents |-> <<I_solo_alumnos>>, entities |-> E_catalogo],
     [intents |-> <<I_consulta_alumnos, I_estadisticas_generales>>, entities |-> E_catalogo],
     [intents |-> <<I_solo_alumnos, I_consulta_alumnos>>, entities |-> E_catalogo],
     [intents |-> <<I_horarios, I_vacio>>, entities |-> E_catalogo],
     [intents |-> <<I_umbral, I_vacio>>, entities |-> E_catalogo],
     [intents |-> <<I_consulta_alumnos, I_estadisticas_generales, I_horarios, I_busqueda_especifica>>, entities |-> E_catalogo]}

\* The texts handed to the processor.

NlpTexts ==
    {M_vacio, M_alumnos, M_alumnos_de_isc, M_cuantos_hay, M_horarios, M_total, M_xyz, M_drop_table_alumnos, M_busca_a_ana, M_hora, M_dame_el_numero_total, M_que_tal,
     M_civil_e_isc}

\* ------------------------------------------------------------------ state

ConvIds == {101, 102}

RecognizedIntents ==
    {"estadisticas_generales", "consulta_alumnos", "consulta_profesores",
     "alumnos_riesgo", "calificaciones_promedio", "busqueda_especifica"}

\* Intent names the classifier can hand over: the recognized ones, its own
\* fallback "general" and a catalog name the generator does not know.
IntentNames == RecognizedIntents \cup {"general", "horarios"}

NoEntities ==
    [carreras |-> << >>, cuatrimestres |-> << >>,
     tipos_riesgo |-> << >>, niveles_riesgo |-> << >>]

W_ISC == <<"I","S","C">>
W_3 == <<"3">>
W_tercero == <<"t","e","r","c","e","r","o">>
W_academico == <<"a","c","a","d","e","m","i","c","o">>
W_alto == <<"a","l","t","o">>
W_ana == <<"a","n","a">>
W_drop == <<"d","r","o","p">>
W_table == <<"t","a","b","l","e">>
W_alumnos == <<"a","l","u","m","n","o","s">>

EntityInputs ==
    [carreras : {<< >>, <<W_ISC>>},
     cuatrimestres : {<< >>, <<W_3>>, <<W_tercero>>},
     tipos_riesgo : {<< >>, <<W_academico>>},
     niveles_riesgo : {<< >>, <<W_alto>>}]

\* None or [], one term, three terms (nine conditions, cut to six).
SearchTermInputs == {<< >>, <<W_ana>>, <<W_drop, W_table, W_alumnos>>}

VARIABLES
    q_hist,     \* the statement text, then the output of each optimize_query
    q_valid,    \* validate_query's verdict on the statement: "unset", "true", "false"
    g_in,       \* generate_query's arguments
    g_out,      \* the spec generate_query returned
    g_valid,    \* validate_query's verdict on each statement of g_out
    conversation_memory,    \* ChatBotAI.conversation_memory
    conversation_history,   \* ConversationAI.conversation_history
    appended,   \* per conversation id, every entry ever appended, in order
    n_appends,  \* appends made so far to either store
    pc,         \* per call of procesar_mensaje: where the coroutine stands
    args,       \* per call: mensaje and conversacion_id
    analisis_nlp,       \* per call: what analyze_message returned
    sql_info,           \* per call: what generate_query returned
    ejec,               \* per call: the locals of _ejecutar_consultas at its await
    datos_resultado,    \* per call: what _ejecutar_consultas returned
    respuesta_ia,       \* per call: what generate_response returned
    retorno,            \* per call: what procesar_mensaje returned
    traza,      \* per call: validate, optimize and data-store calls made, in order
    running,    \* the call the event loop is running, 0 between calls
    slots,      \* the calls the caller may start
    n_mensajes, \* messages handed to procesar_mensaje so far
    n_in,       \* the text and the intent catalog handed to the NLPProcessor
    n_out       \* what classify_intent and extract_search_terms returned

textVars == <<q_hist, q_valid>>
genVars == <<g_in, g_out, g_valid>>
memVars == <<conversation_memory, conversation_history, appended, n_appends>>
nlpVars == <<n_in, n_out>>
callVars == <<pc, args, analisis_nlp, sql_info, ejec, datos_resultado,
              respuesta_ia, retorno, traza, running, slots, n_mensajes>>
callVarsButPc == <<args, analisis_nlp, sql_info, ejec, datos_resultado,
                   respuesta_ia, retorno, traza, running, slots, n_mensajes>>
vars == <<q_hist, q_valid, g_in, g_out, g_valid,
          conversation_memory, conversation_history, appended, n_appends,
          pc, args, analisis_nlp, sql_info, ejec, datos_resultado,
          respuesta_ia, retorno, traza, running, slots, n_mensajes, n_in, n_out>>

NoSpec == [query_type |-> "unset"]

IdleText == q_hist = << >> /\ q_valid = "unset"
IdleGen ==
    /\ g_in = [intent |-> "general", entities |-> NoEntities, search_terms |-> << >>]
    /\ g_out = NoSpec
    /\ g_valid = << >>
IdleMem ==
    /\ conversation_memory = [c \in {} |-> << >>]
    /\ conversation_history = << >>
    /\ appended = [c \in ConvIds |-> << >>]
    /\ n_appends = 0

NoNlp == << >>
IdleNlp == n_in = NoNlp /\ n_out = NoNlp

Calls == {1, 2}
NoArgs == [mensaje |-> "unset", conversacion_id |-> 0]
NoAnalisis == [intent |-> "unset"]
NoEjec == [kind |-> "unset"]
NoDatos == [query_type |-> "unset"]
NoRespuesta == [respuesta |-> "unset"]

IdleCalls ==
    /\ pc = [c \in Calls |-> "idle"]
    /\ args = [c \in Calls |-> NoArgs]
    /\ analisis_nlp = [c \in Calls |-> NoAnalisis]
    /\ sql_info = [c \in Calls |-> NoSpec]
    /\ ejec = [c \in Calls |-> NoEjec]
    /\ datos_resultado = [c \in Calls |-> NoDatos]
    /\ respuesta_ia = [c \in Calls |-> NoRespuesta]
    /\ retorno = [c \in Calls |-> NoRespuesta]
    /\ traza = [c \in Calls |-> << >>]
    /\ running = 0
    /\ slots = {}
    /\ n_mensajes = 0

\* ------------------------------------- validate_query and optimize_query

InitText ==
    /\ q_hist \in {<<t>> : t \in TextInputs}
    /\ q_valid = "unset"
    /\ IdleGen /\ IdleMem /\ IdleCalls /\ IdleNlp

TxtValidate ==
    /\ q_valid = "unset"
    /\ q_valid' = IF validate_query(q_hist[1]) THEN "true" ELSE "false"
    /\ UNCHANGED <<nlpVars, q_hist, genVars, memVars, callVars>>

TxtOptimize ==
    /\ Len(q_hist) <= MaxOptimize
    /\ q_hist' = Append(q_hist, optimize_query(q_hist[Len(q_hist)]))
    /\ UNCHANGED <<nlpVars, q_valid, genVars, memVars, callVars>>

NextText == TxtValidate \/ TxtOptimize

SpecText == InitText /\ [][NextText]_vars

\* --------------------------------------------------------- generate_query

Statements(spec) ==
    IF spec.query_type = "single" THEN << spec.query >>
    ELSE IF spec.query_type = "multiple"
    THEN [i \in 1..Len(spec.queries) |-> spec.queries[i].query]
    ELSE << >>

InitGen ==
    /\ g_in \in [intent : IntentNames, entities : EntityInputs,
                 search_terms : SearchTermInputs]
    /\ g_out = NoSpec
    /\ g_valid = << >>
    /\ IdleText /\ IdleMem /\ IdleCalls /\ IdleNlp

GenGenerate ==
    /\ g_out = NoSpec
    /\ g_out' = generate_query(g_in.intent, g_in.entities, g_in.search_terms)
    /\ UNCHANGED <<nlpVars, g_in, g_valid, textVars, memVars, callVars>>

GenValidate ==
    /\ g_out # NoSpec
    /\ g_valid = << >>
    /\ g_valid' = [i \in 1..Len(Statements(g_out)) |-> validate_query(Statements(g_out)[i])]
    /\ UNCHANGED <<nlpVars, g_in, g_out, textVars, memVars, callVars>>

NextGen == GenGenerate \/ GenValidate

SpecGen == InitGen /\ [][NextGen]_vars

\* ---------------------------------------------------- memory operations

MaxAppends == 12

\* What a processed message leaves in memory: the message and its intent.
MemoryEntries ==
    {[mensaje_usuario |-> "cuantos alumnos hay", intent_detectado |-> "consulta_alumnos"],
     [mensaje_usuario |-> "hola", intent_detectado |-> "general"]}

HistoryExchanges == {[user_message |-> "hola"]}

InitMem == IdleMem /\ IdleText /\ IdleGen /\ IdleCalls /\ IdleNlp

MemAppend(conv, entrada) ==
    /\ n_appends < MaxAppends
    /\ conversation_memory' =
           _actualizar_memoria_conversacional(conversation_memory, conv, entrada)
    /\ appended' = [appended EXCEPT ![conv] = Append(@, entrada)]
    /\ n_appends' = n_appends + 1
    /\ UNCHANGED <<nlpVars, conversation_history, textVars, genVars, callVars>>

HistAppend(exchange) ==
    /\ n_appends < MaxAppends
    /\ conversation_history' = _add_to_history(conversation_history, exchange)
    /\ n_appends' = n_appends + 1
    /\ UNCHANGED <<nlpVars, conversation_memory, appended, textVars, genVars, callVars>>

HistClear ==
    /\ conversation_history' = clear_context(conversation_history)
    /\ UNCHANGED <<nlpVars, conversation_memory, appended, n_appends, textVars, genVars, callVars>>

NextMem ==
    \/ \E conv \in ConvIds, entrada \in MemoryEntries : MemAppend(conv, entrada)
    \/ \E exchange \in HistoryExchanges : HistAppend(exchange)
    \/ HistClear

SpecMem == InitMem /\ [][NextMem]_vars

\* ------------------------------------------------- NLPProcessor: the steps

InitNlp ==
    /\ n_in \in [text : NlpTexts, intents_data : Catalogs]
    /\ n_out = NoNlp
    /\ IdleText /\ IdleGen /\ IdleMem /\ IdleCalls

NlpClassify ==
    /\ "intent" \notin DOMAIN n_out
    /\ n_out' = classify_intent(n_in.text, n_in.intents_data) @@ n_out
    /\ UNCHANGED <<n_in, textVars, genVars, memVars, callVars>>

NlpSearchTerms ==
    /\ "search_terms" \notin DOMAIN n_out
    /\ n_out' = [search_terms |-> extract_search_terms(n_in.text)] @@ n_out
    /\ UNCHANGED <<n_in, textVars, genVars, memVars, callVars>>

NextNlp == NlpClassify \/ NlpSearchTerms

SpecNlp == InitNlp /\ [][NextNlp]_vars

\* ---------------------------------------------------- _ejecutar_consultas

T_desc_default ==
    <<"C","o","n","s","u","l","t","a"," ","e","j","e","c","u","t","a","d","a">>

\* sql_info.get('queries', {}), sql_info.get('query', ''), sql_info.get('description', ...)
get_queries(si) == IF "queries" \in DOMAIN si THEN si.queries ELSE << >>
get_query(si) == IF "query" \in DOMAIN si THEN si.query ELSE << >>
get_description(si) == IF "description" \in DOMAIN si THEN si.description ELSE T_desc_default

\* resultados[key] = value, on a dict kept as its items in insertion order.
dict_set(d, key, value) ==
    IF \E i \in 1..Len(d) : d[i].key = key
    THEN [i \in 1..Len(d) |-> IF d[i].key = key THEN [key |-> key, value |-> value] ELSE d[i]]
    ELSE Append(d, [key |-> key, value |-> value])

dict_has(d, key) == \E i \in 1..Len(d) : d[i].key = key
dict_get(d, key) == d[CHOOSE i \in 1..Len(d) : d[i].key = key].value

datos_multiple(resultados) ==
    [query_type |-> "multiple", data |-> resultados, total_queries |-> Len(resultados)]
datos_single(result, si) ==
    [query_type |-> "single", data |-> result, total_rows |-> Len(result),
     description |-> get_description(si)]
datos_error(msg) == [query_type |-> "error", data |-> << >>, error |-> msg]

\* One entry of a call's trace: validate_query(arg) answered ok, optimize_query(arg)
\* returned out, ejecutar_consulta(arg) was awaited, returned or raised.
Evento(op, key, arg, out, ok) ==
    [op |-> op, key |-> key, arg |-> arg, out |-> out, ok |-> ok]

\* A statement sent without asking validate_query.
preparar_consulta_sin_validar(query) ==
    [valid |-> TRUE,
     optimize_calls |-> <<[arg |-> query, out |-> optimize_query(query)]>>,
     sent |-> optimize_query(query)]

\* A statement optimized a second time before it is sent.
preparar_consulta_dos_veces(query) ==
    IF validate_query(query)
    THEN [valid |-> TRUE,
          optimize_calls |-> <<[arg |-> query, out |-> optimize_query(query)],
                               [arg |-> optimize_query(query),
                                out |-> optimize_query(optimize_query(query))]>>,
          sent |-> optimize_query(optimize_query(query))]
    ELSE [valid |-> FALSE, optimize_calls |-> << >>, sent |-> << >>]

\* if validate_query(query): optimized_query = optimize_query(query); the calls made
\* and the text that goes to ejecutar_consulta.
preparar_consulta(query) ==
    IF validate_query(query)
    THEN [valid |-> TRUE,
          optimize_calls |-> <<[arg |-> query, out |-> optimize_query(query)]>>,
          sent |-> optimize_query(query)]
    ELSE [valid |-> FALSE, optimize_calls |-> << >>, sent |-> << >>]

eventos_preparar(key, query, p) ==
    <<Evento("validate", key, query, << >>, p.valid)>>
    \o [i \in 1..Len(p.optimize_calls) |->
            Evento("optimize", key, p.optimize_calls[i].arg, p.optimize_calls[i].out, TRUE)]
    \o (IF p.valid THEN <<Evento("execute", key, p.sent, << >>, TRUE)>> ELSE << >>)

\* The for loop over queries.items() from item i on, run up to its next await or to
\* the return: a rejected statement gets [] and the loop goes on.
RECURSIVE for_queries(_, _, _, _)
for_queries(queries, i, resultados, eventos) ==
    IF i > Len(queries)
    THEN [at |-> "return", eventos |-> eventos,
          datos |-> datos_multiple(resultados)]
    ELSE LET key == queries[i].key
             query == queries[i].query
             p == preparar_consulta(query)
             ev == eventos \o eventos_preparar(key, query, p)
         IN  IF p.valid
             THEN [at |-> "await", eventos |-> ev,
                   ejec |-> [kind |-> "multiple", queries |-> queries, i |-> i,
                             key |-> key, resultados |-> resultados]]
             ELSE for_queries(queries, i + 1, dict_set(resultados, key, << >>), ev)

\* _ejecutar_consultas from its entry up to its first await or to its return.
iniciar_consultas(si) ==
    IF "query_type" \notin DOMAIN si
    THEN [at |-> "return", eventos |-> << >>, datos |-> datos_error("'query_type'")]
    ELSE IF si.query_type = "multiple"
    THEN for_queries(get_queries(si), 1, << >>, << >>)
    ELSE IF si.query_type = "single"
    THEN LET query == get_query(si)
             p == preparar_consulta(query)
         IN  IF p.valid
             THEN [at |-> "await", eventos |-> eventos_preparar("query", query, p),
                   ejec |-> [kind |-> "single", key |-> "query"]]
             ELSE [at |-> "return", eventos |-> eventos_preparar("query", query, p),
                   datos |-> datos_error("Consulta no valida")]
    ELSE [at |-> "return", eventos |-> << >>,
          datos |-> datos_error("Tipo de consulta no reconocido")]

\* _ejecutar_consultas from the return of ejecutar_consulta with result.
reanudar_consultas(ej, si, result) ==
    IF ej.kind = "multiple"
    THEN for_queries(ej.queries, ej.i + 1, dict_set(ej.resultados, ej.key, result), << >>)
    ELSE [at |-> "return", eventos |-> << >>, datos |-> datos_single(result, si)]

\* except Exception as e, around the whole of _ejecutar_consultas.
consultas_except(msg) ==
    [at |-> "return", eventos |-> << >>, datos |-> datos_error(msg)]

\* What the data store may answer: no row, or one row.
Fila == [total |-> 5, promedio |-> 8]
DbRows == {<< >>, <<Fila>>}

\* The call moves to the point r describes.
SeguirConsultas(c, r) ==
    /\ traza' = [traza EXCEPT ![c] = @ \o r.eventos]
    /\ IF r.at = "await"
       THEN /\ pc' = [pc EXCEPT ![c] = "await_db"]
            /\ ejec' = [ejec EXCEPT ![c] = r.ejec]
            /\ running' = 0
            /\ UNCHANGED datos_resultado
       ELSE /\ pc' = [pc EXCEPT ![c] = "respuesta"]
            /\ ejec' = [ejec EXCEPT ![c] = NoEjec]
            /\ running' = c
            /\ datos_resultado' = [datos_resultado EXCEPT ![c] = r.datos]

EjecutarConsultas(c) ==
    /\ pc[c] = "ejecutar"
    /\ running = c
    /\ SeguirConsultas(c, iniciar_consultas(sql_info[c]))
    /\ UNCHANGED <<nlpVars, args, analisis_nlp, sql_info, respuesta_ia, retorno, slots, n_mensajes,
                   textVars, genVars, memVars>>

DbRetorna(c, result) ==
    /\ pc[c] = "await_db"
    /\ running = 0
    /\ LET r == reanudar_consultas(ejec[c], sql_info[c], result)
       IN  SeguirConsultas(c, [r EXCEPT !.eventos =
               <<Evento("db_return", ejec[c].key, << >>, << >>, TRUE)>> \o @])
    /\ UNCHANGED <<nlpVars, args, analisis_nlp, sql_info, respuesta_ia, retorno, slots, n_mensajes,
                   textVars, genVars, memVars>>

DbFalla(c) ==
    /\ pc[c] = "await_db"
    /\ running = 0
    /\ LET r == consultas_except("mysql error")
       IN  SeguirConsultas(c, [r EXCEPT !.eventos =
               <<Evento("db_raise", ejec[c].key, << >>, << >>, FALSE)>> \o @])
    /\ UNCHANGED <<nlpVars, args, analisis_nlp, sql_info, respuesta_ia, retorno, slots, n_mensajes,
                   textVars, genVars, memVars>>

\* except Exception as e, were it a bare except: every exception is caught.
catches_BaseException(e) == TRUE

\* except Exception as e: asyncio.CancelledError derives from BaseException and is
\* not caught (Python 3.8 and later); what the data store raises is.
catches_Exception(e) == e # "CancelledError"

\* The caller cancels the task while it waits for the data store: CancelledError is
\* raised at the await. Uncaught, it leaves _ejecutar_consultas and procesar_mensaje.
Cancelar(c) ==
    /\ pc[c] = "await_db"
    /\ running = 0
    /\ IF catches_Exception("CancelledError")
       THEN /\ LET r == consultas_except("")
               IN  SeguirConsultas(c, [r EXCEPT !.eventos =
                       <<Evento("cancel", ejec[c].key, << >>, << >>, FALSE)>> \o @])
            /\ UNCHANGED retorno
       ELSE /\ pc' = [pc EXCEPT ![c] = "cancelled"]
            /\ traza' = [traza EXCEPT ![c] =
                   Append(@, Evento("cancel", ejec[c].key, << >>, << >>, FALSE))]
            /\ ejec' = [ejec EXCEPT ![c] = NoEjec]
            /\ retorno' = [retorno EXCEPT ![c] = Raised("CancelledError")]
            /\ UNCHANGED <<running, datos_resultado>>
    /\ UNCHANGED <<nlpVars, args, analisis_nlp, sql_info, respuesta_ia, slots, n_mensajes,
                   textVars, genVars, memVars>>

Q_uno ==
    <<"S","E","L","E","C","T"," ","1">>
Q_joins ==
    <<"S","E","L","E","C","T"," ","a"," ","F","R","O","M"," ","t"," ","J","O","I","N"," ","u"," ",
    "J","O","I","N"," ","v"," ","J","O","I","N"," ","w">>
Q_limit ==
    <<"S","E","L","E","C","T"," ","a"," ","F","R","O","M"," ","t"," ","L","I","M","I","T"," ","5">>
Q_drop ==
    <<"D","R","O","P"," ","T","A","B","L","E"," ","t">>
Q_twice ==
    <<"s","e","l","e","c","t"," ","a"," ","J","O","I","N"," ","b"," ","J","O","I","N"," ","c"," ",
    "J","O","I","N"," ","d"," ","S","E","L","E","C","T">>

\* The specs _ejecutar_consultas is started on: what generate_query builds, and specs
\* of every other shape the function accepts.
ExecInputs ==
    {generate_query("estadisticas_generales", NoEntities, << >>),
     generate_query("consulta_alumnos", [NoEntities EXCEPT !.carreras = <<W_ISC>>], <<W_ana>>),
     generate_query("busqueda_especifica", NoEntities, <<W_ana>>),
     generate_query("consulta_profesores", NoEntities, << >>),
     [query_type |-> "multiple", description |-> T_desc_default,
      queries |-> <<[key |-> "a", query |-> Q_uno], [key |-> "b", query |-> Q_drop],
                    [key |-> "c", query |-> Q_joins]>>],
     [query_type |-> "multiple", description |-> T_desc_default,
      queries |-> <<[key |-> "a", query |-> Q_drop]>>],
     [query_type |-> "multiple", description |-> T_desc_default,
      queries |-> <<[key |-> "a", query |-> Q_limit], [key |-> "b", query |-> Q_twice],
                    [key |-> "c", query |-> Q_uno]>>],
     generate_query("alumnos_riesgo", NoEntities, << >>),
     generate_query("calificaciones_promedio", NoEntities, << >>),
     [query_type |-> "multiple", description |-> T_desc_default, queries |-> << >>],
     [query_type |-> "multiple"],
     [query_type |-> "single", query |-> Q_joins, description |-> T_desc_default],
     [query_type |-> "single", query |-> Q_limit],
     [query_type |-> "single", query |-> Q_twice],
     [query_type |-> "single", query |-> Q_drop],
     [query_type |-> "single"],
     [query_type |-> "stream", query |-> Q_uno],
     [description |-> T_desc_default]}

InitExec ==
    /\ sql_info \in {[c \in Calls |-> IF c = 1 THEN si ELSE NoSpec] : si \in ExecInputs}
    /\ pc = [c \in Calls |-> IF c = 1 THEN "ejecutar" ELSE "idle"]
    /\ running = 1
    /\ args = [c \in Calls |-> NoArgs]
    /\ analisis_nlp = [c \in Calls |-> NoAnalisis]
    /\ ejec = [c \in Calls |-> NoEjec]
    /\ datos_resultado = [c \in Calls |-> NoDatos]
    /\ respuesta_ia = [c \in Calls |-> NoRespuesta]
    /\ retorno = [c \in Calls |-> NoRespuesta]
    /\ traza = [c \in Calls |-> << >>]
    /\ slots = {}
    /\ n_mensajes = 0
    /\ IdleText /\ IdleGen /\ IdleMem /\ IdleNlp

NextExec ==
    \/ \E c \in Calls : EjecutarConsultas(c)
    \/ \E c \in Calls, result \in DbRows : DbRetorna(c, result)
    \/ \E c \in Calls : DbFalla(c)

SpecExec == InitExec /\ [][NextExec]_vars

\* ------------------------------------------------------ generate_response

\* A response text is a sequence of pieces: a header, the placeholder sentences
\* personalization looks for, and the fixed paragraphs. Pieces are written without
\* accents and emoji. A recommendation is its sentence and the count it carries.
Rec(text) == [text |-> text, n |-> 0]
RecN(text, n) == [text |-> text, n |-> n]

PH_calculando == "Los datos se estan calculando..."
PH_en_proceso == "Informacion en proceso..."
PH_estudiantes ==
    "Los datos de estudiantes se estan consultando en tiempo real desde la base de datos..."
PH_docente == "Consultando informacion del cuerpo docente..."
PH_reportes == "Consultando reportes activos y casos abiertos..."

response_templates ==
    [estadisticas_generales |->
         <<"Estadisticas Generales de DTAI:", "Resumen del Sistema Academico:",
           "Dashboard Academico Actual:">>,
     consulta_alumnos |->
         <<"Informacion de Estudiantes:", "Base de Datos Estudiantil:",
           "Registro Academico:">>,
     consulta_profesores |->
         <<"Cuerpo Docente:", "Personal Academico:", "Directorio de Profesores:">>,
     alumnos_riesgo |->
         <<"Estudiantes que Requieren Atencion:", "Alerta Academica:",
           "Reporte de Riesgo Estudiantil:">>,
     calificaciones_promedio |->
         <<"Analisis de Rendimiento Academico:", "Evaluacion del Desempeno:",
           "Metricas Academicas:">>,
     busqueda_especifica |->
         <<"Resultados de Busqueda:", "Informacion Encontrada:", "Datos Especificos:">>,
     general |->
         <<"Informacion Solicitada:", "Respuesta del Sistema:", "Analisis de Datos:">>,
     error |->
         <<"Lo siento, hubo un problema procesando tu consulta. Puedes intentar preguntarme sobre: Estadisticas generales, Informacion de estudiantes, Datos de profesores, Alumnos en riesgo academico",
           "No pude procesar esa consulta especifica. Te recomiendo preguntar: Cuantos estudiantes hay? Que profesores estan activos? Hay alumnos en riesgo? Estadisticas por carrera">>]

\* The pieces whose text has 'riesgo' in it, in any case.
PiecesWithRiesgo ==
    {"Reporte de Riesgo Estudiantil:",
     "Estudiantes en Situacion de Riesgo Academico:",
     "Para mejores resultados, puedes preguntar sobre estadisticas, estudiantes, profesores o situaciones de riesgo academico.",
     response_templates.error[1], response_templates.error[2],
     "Lo siento, hubo un problema procesando tu consulta. Por favor intenta de nuevo o preguntame sobre: Estadisticas generales del sistema, Informacion de estudiantes por carrera, Estado de profesores activos, Alumnos en riesgo academico"}

\* dict.get(key, default) and d[key] = value on a dict with string keys.
dict_get_or(d, key, default) == IF key \in DOMAIN d THEN d[key] ELSE default
dict_put(d, key, value) == (key :> value) @@ d

_generate_error_response(k) ==
    [respuesta |-> <<response_templates.error[k]>>,
     datos_contexto |-> [tipo_consulta |-> "error"],
     recomendaciones |->
         <<Rec("Reformula tu pregunta de manera mas especifica"),
           Rec("Pregunta sobre temas academicos especificos"),
           Rec("Usa palabras clave como 'estudiantes', 'profesores', 'carreras'")>>]

\* promedio10 is ten times the average, so 8.3 is 83.
_generate_stats_analysis(total_alumnos, promedio10) ==
    LET a == IF total_alumnos > 200
             THEN [text |-> <<"Matricula Saludable">>,
                   recommendations |-> <<Rec("Mantener programas de retencion estudiantil")>>]
             ELSE IF total_alumnos < 100
             THEN [text |-> <<"Oportunidad de Crecimiento">>,
                   recommendations |-> <<Rec("Implementar estrategias de captacion")>>]
             ELSE [text |-> << >>, recommendations |-> << >>]
        b == IF promedio10 >= 85
             THEN [text |-> <<"Excelencia Academica">>, recommendations |-> << >>]
             ELSE IF promedio10 >= 75
             THEN [text |-> <<"Buen Rendimiento">>,
                   recommendations |-> <<Rec("Implementar programas de apoyo academico")>>]
             ELSE [text |-> <<"Area de Mejora">>,
                   recommendations |-> <<Rec("Revisar metodologias de ensenanza")>>]
    IN  [text |-> a.text \o b.text, recommendations |-> a.recommendations \o b.recommendations]

_generate_stats_response(query_result, k) ==
    IF query_result.query_type = "multiple"
    THEN LET analysis == _generate_stats_analysis(234, 83)
         IN  [respuesta |->
                  <<response_templates.estadisticas_generales[k],
                    "Total de Estudiantes Activos:", PH_calculando,
                    "Profesores Activos:", PH_en_proceso,
                    "Carreras Disponibles: Consultando base de datos...",
                    "Promedio General: Calculando metricas...">> \o analysis.text,
              datos_contexto |-> [tipo_consulta |-> "estadisticas_generales",
                                  timestamp |-> "now"],
              recomendaciones |-> analysis.recommendations]
    ELSE _generate_error_response(k)

_generate_students_response(query_result, entities, k) ==
    [respuesta |->
         <<response_templates.consulta_alumnos[k]>>
         \o (IF entities.carreras # << >>
             THEN <<"Consultando estudiantes de la carrera:", "{carrera}",
                    "Los resultados apareceran aqui...">>
             ELSE <<PH_estudiantes>>)
         \o <<"Analisis: La consulta se esta procesando.">>,
     datos_contexto |-> [tipo_consulta |-> "estudiantes", filtros_aplicados |-> entities],
     recomendaciones |->
         <<Rec("Filtrar por carrera especifica para analisis detallado"),
           Rec("Revisar estudiantes con promedio menor a 7.0"),
           Rec("Identificar alumnos que necesitan tutoria")>>]

_generate_teachers_response(query_result, entities, k) ==
    [respuesta |->
         <<response_templates.consulta_profesores[k], PH_docente,
           "Datos Disponibles: Numero de empleado, nombres, carrera asignada">>,
     datos_contexto |-> [tipo_consulta |-> "profesores", filtros |-> entities],
     recomendaciones |->
         <<Rec("Identificar profesores con mayor experiencia para mentoria"),
           Rec("Revisar distribucion de docentes por carrera"),
           Rec("Analizar especialidades disponibles")>>]

_generate_risk_response(query_result, entities, k) ==
    [respuesta |->
         <<response_templates.alumnos_riesgo[k],
           "Estudiantes en Situacion de Riesgo Academico:", PH_reportes,
           "Programar sesiones de tutoria inmediata",
           "Contactar a estudiantes y padres de familia",
           "Crear plan de seguimiento personalizado",
           "Asignar mentor academico especializado">>,
     datos_contexto |-> [tipo_consulta |-> "riesgo_academico", urgencia |-> "alta"],
     recomendaciones |->
         <<Rec("Programar sesiones de tutoria inmediata"),
           Rec("Contactar a estudiantes y padres de familia"),
           Rec("Crear plan de seguimiento personalizado"),
           Rec("Asignar mentor academico especializado")>>]

_generate_grades_response(query_result, entities, k) ==
    [respuesta |->
         <<response_templates.calificaciones_promedio[k],
           "Analisis de Promedios por Carrera: Calculando metricas de rendimiento academico...",
           "Insights: Los datos incluyen promedio por carrera, minimos, maximos">>,
     datos_contexto |-> [tipo_consulta |-> "calificaciones", nivel_analisis |-> "carrera"],
     recomendaciones |->
         <<Rec("Identificar carreras con mejor rendimiento"),
           Rec("Implementar mejores practicas en carreras con menor promedio"),
           Rec("Reconocer estudiantes destacados"),
           Rec("Crear programas de apoyo academico focalizados")>>]

_generate_search_response(query_result, entities, k) ==
    [respuesta |->
         <<response_templates.busqueda_especifica[k],
           "Busqueda en Base de Datos: Buscando coincidencias en registros de estudiantes y profesores...",
           "Contexto: La busqueda incluye nombres, apellidos, matriculas y numeros de empleado.">>,
     datos_contexto |-> [tipo_consulta |-> "busqueda",
                         terminos_busqueda |-> dict_get_or(entities, "nombres", << >>)],
     recomendaciones |->
         <<Rec("Refinar busqueda con terminos mas especificos"),
           Rec("Buscar por matricula para resultados exactos")>>]

_generate_general_response(query_result, intent, k) ==
    [respuesta |->
         <<response_templates.general[k], "Procesando tu consulta...",
           "Para mejores resultados, puedes preguntar sobre estadisticas, estudiantes, profesores o situaciones de riesgo academico.">>,
     datos_contexto |-> [tipo_consulta |-> "general"],
     recomendaciones |->
         <<Rec("Pregunta sobre estadisticas generales"),
           Rec("Consulta informacion de estudiantes por carrera"),
           Rec("Revisa el estado de profesores activos")>>]

\* The template list random.choice draws from for this intent and result.
templates_used(intent, query_result) ==
    IF intent = "estadisticas_generales"
    THEN (IF query_result.query_type = "multiple"
          THEN response_templates.estadisticas_generales ELSE response_templates.error)
    ELSE IF intent \in RecognizedIntents THEN response_templates[intent]
    ELSE response_templates.general

\* k is the index random.choice picked in the template list.
generate_response(intent, query_result, entities, k) ==
    IF intent = "estadisticas_generales" THEN _generate_stats_response(query_result, k)
    ELSE IF intent = "consulta_alumnos"
    THEN _generate_students_response(query_result, entities, k)
    ELSE IF intent = "consulta_profesores"
    THEN _generate_teachers_response(query_result, entities, k)
    ELSE IF intent = "alumnos_riesgo" THEN _generate_risk_response(query_result, entities, k)
    ELSE IF intent = "calificaciones_promedio"
    THEN _generate_grades_response(query_result, entities, k)
    ELSE IF intent = "busqueda_especifica"
    THEN _generate_search_response(query_result, entities, k)
    ELSE _generate_general_response(query_result, intent, k)

max_rows == 10

\* One piece per row shown, and one more when rows are left out.
format_data_table(data) ==
    IF data = << >> THEN <<"No se encontraron resultados.">>
    ELSE [i \in 1..Len(first(data, max_rows)) |-> "fila"]
         \o (IF Len(data) > max_rows THEN <<"... y mas resultados.">> ELSE << >>)

\* ------------------------------------------------ _personalizar_respuesta

K_ESTUDIANTES == <<"E","S","T","U","D","I","A","N","T","E","S">>
K_ALUMNOS == <<"A","L","U","M","N","O","S">>
K_RIESGO == <<"R","I","E","S","G","O">>

\* d.get(field, default) on a row
row_get(d, field, default) == IF field \in DOMAIN d THEN d[field] ELSE default

\* Whether the text has 'riesgo' in it, in any case.
has_riesgo(text) == \E i \in 1..Len(text) : text[i] \in PiecesWithRiesgo

_generar_recomendaciones_datos(datos, descripcion) ==
    IF contains(K_ESTUDIANTES, upper(descripcion)) \/ contains(K_ALUMNOS, upper(descripcion))
    THEN LET promedios_bajos ==
                 {i \in 1..Len(datos) : row_get(datos[i], "promedio_general", 10) < 7}
         IN  (IF Len(datos) > 30
              THEN <<Rec("Considerar dividir en grupos mas pequenos para mejor seguimiento")>>
              ELSE << >>)
             \o (IF promedios_bajos # {}
                 THEN <<RecN("Revisar {n} estudiantes con promedio menor a 7.0",
                             Cardinality(promedios_bajos))>>
                 ELSE << >>)
    ELSE IF contains(K_RIESGO, upper(descripcion))
    THEN LET niveles_criticos ==
                 {i \in 1..Len(datos) :
                      row_get(datos[i], "nivel_riesgo", "None") \in {"alto", "critico"}}
         IN  (IF Len(datos) > 10
              THEN <<Rec("Alta cantidad de reportes - implementar intervencion masiva")>>
              ELSE << >>)
             \o (IF niveles_criticos # {}
                 THEN <<RecN("Atencion URGENTE: {n} casos criticos",
                             Cardinality(niveles_criticos))>>
                 ELSE << >>)
    ELSE << >>

_integrar_datos_unicos(respuesta, datos) ==
    LET datos_resultado_ == datos.data
        tabla_formateada == format_data_table(datos_resultado_)
    IN  IF datos_resultado_ # << >>
        THEN [respuesta EXCEPT
                 !.respuesta =
                     replace_all(replace_all(replace_all(@, <<PH_estudiantes>>,
                                                         tabla_formateada),
                                             <<PH_docente>>, tabla_formateada),
                                 <<PH_reportes>>, tabla_formateada),
                 !.datos_contexto = dict_put(@, "total_resultados", Len(datos_resultado_)),
                 !.recomendaciones =
                     @ \o _generar_recomendaciones_datos(
                              datos_resultado_, dict_get_or(datos, "description", << >>))]
        ELSE [respuesta EXCEPT
                 !.respuesta =
                     replace_all(@, <<PH_estudiantes>>,
                                 <<"No se encontraron resultados para esta consulta.">>)]

\* datos_consultas[key] is there and has rows.
has_rows(data, key) == dict_has(data, key) /\ dict_get(data, key) # << >>

\* datos.get(key, [{}])[0] raises IndexError: the key is there with an empty list.
index_error(data, key) == dict_has(data, key) /\ dict_get(data, key) = << >>

\* datos.get(key, [{}])[0].get(field, 0), where it does not raise.
campo(data, key, field) ==
    IF dict_has(data, key) THEN row_get(dict_get(data, key)[1], field, 0) ELSE 0

\* Returns the analysis as [text |-> its pieces], or the IndexError it raises.
_generar_analisis_inteligente(datos) ==
    IF \/ index_error(datos, "total_alumnos")
       \/ index_error(datos, "total_profesores")
       \/ index_error(datos, "promedio_general")
    THEN Raised("IndexError")
    ELSE LET total_alumnos == campo(datos, "total_alumnos", "total")
             total_profesores == campo(datos, "total_profesores", "total")
             promedio == campo(datos, "promedio_general", "promedio")
             partes ==
                 (IF total_alumnos # 0 /\ total_profesores # 0
                  THEN (IF total_alumnos > 20 * total_profesores
                        THEN <<"Alta carga docente">>
                        ELSE IF total_alumnos < 10 * total_profesores
                        THEN <<"Buena ratio profesor-alumno">>
                        ELSE <<"Ratio equilibrada">>)
                  ELSE << >>)
                 \o (IF promedio # 0
                     THEN (IF 2 * promedio >= 17
                           THEN <<"Excelente rendimiento academico general.">>
                           ELSE IF 2 * promedio >= 15
                           THEN <<"Buen rendimiento academico con oportunidades de mejora.">>
                           ELSE <<"Oportunidad de implementar programas de apoyo academico.">>)
                     ELSE << >>)
         IN  [text |-> IF partes # << >> THEN partes
                       ELSE <<"Sistema funcionando normalmente.">>]

\* Returns the response, or the IndexError it raises.
_integrar_datos_multiples(respuesta, datos) ==
    LET datos_consultas == datos.data
        stats_reales ==
            (IF has_rows(datos_consultas, "total_alumnos")
             THEN <<"{n} Estudiantes Activos">> ELSE << >>)
            \o (IF has_rows(datos_consultas, "total_profesores")
                THEN <<"{n} Profesores Activos">> ELSE << >>)
            \o (IF has_rows(datos_consultas, "total_carreras")
                THEN <<"{n} Carreras Disponibles">> ELSE << >>)
            \o (IF /\ has_rows(datos_consultas, "promedio_general")
                   /\ campo(datos_consultas, "promedio_general", "promedio") # 0
                THEN <<"Promedio General: {n}">> ELSE << >>)
        analisis == _generar_analisis_inteligente(datos_consultas)
    IN  IF stats_reales = << >> THEN respuesta
        ELSE IF IsRaised(analisis) THEN analisis
        ELSE IF index_error(datos_consultas, "total_carreras") THEN Raised("IndexError")
        ELSE [respuesta EXCEPT
                 !.respuesta = replace_all(replace_all(@, <<PH_calculando>>, stats_reales),
                                           <<PH_en_proceso>>, analisis.text),
                 !.datos_contexto =
                     dict_put(@, "estadisticas_reales",
                              [alumnos |-> campo(datos_consultas, "total_alumnos", "total"),
                               profesores |-> campo(datos_consultas, "total_profesores", "total"),
                               carreras |-> campo(datos_consultas, "total_carreras", "total"),
                               promedio |-> campo(datos_consultas, "promedio_general",
                                                  "promedio")])]

_agregar_contexto_conversacional(respuesta, memoria) ==
    IF Len(memoria) > 1
    THEN LET ultimo_intent == memoria[Len(memoria) - 1].intent_detectado
             r1 == IF ultimo_intent = dict_get_or(respuesta.datos_contexto, "tipo_consulta", "None")
                   THEN [respuesta EXCEPT !.respuesta =
                            <<"Continuando con el analisis anterior...">> \o @]
                   ELSE respuesta
         IN  IF ultimo_intent = "consulta_alumnos" /\ ~has_riesgo(r1.respuesta)
             THEN [r1 EXCEPT !.recomendaciones = Append(@, Rec(
                      "Te gustaria revisar si alguno de estos estudiantes esta en riesgo?"))]
             ELSE r1
    ELSE respuesta

RECURSIVE sum_len(_)
sum_len(d) == IF d = << >> THEN 0 ELSE Len(Head(d).value) + sum_len(Tail(d))

_contar_datos(datos) ==
    IF datos.query_type = "multiple" THEN sum_len(datos.data)
    ELSE IF datos.query_type = "single" THEN Len(datos.data)
    ELSE 0

\* memoria is self.conversation_memory.get(conversacion_id, []). An exception raised
\* while the data are merged is logged and the response is returned as it came.
integrar_datos(respuesta, datos) ==
    IF datos.query_type = "multiple" THEN _integrar_datos_multiples(respuesta, datos)
    ELSE IF datos.query_type = "single" THEN _integrar_datos_unicos(respuesta, datos)
    ELSE respuesta

_personalizar_respuesta(respuesta, memoria, datos) ==
    LET r1 == integrar_datos(respuesta, datos)
    IN  IF IsRaised(r1) THEN respuesta
        ELSE LET r2 == IF Len(memoria) > 1
                       THEN _agregar_contexto_conversacional(r1, memoria) ELSE r1
             IN  [r2 EXCEPT !.datos_contexto =
                     dict_put(dict_put(@, "timestamp", "now"),
                              "total_datos", _contar_datos(datos))]

_generar_respuesta_error ==
    [respuesta |->
         <<"Lo siento, hubo un problema procesando tu consulta. Por favor intenta de nuevo o preguntame sobre: Estadisticas generales del sistema, Informacion de estudiantes por carrera, Estado de profesores activos, Alumnos en riesgo academico">>,
     datos_contexto |-> [tipo_consulta |-> "error_sistema", timestamp |-> "now"],
     recomendaciones |->
         <<Rec("Reformular la pregunta de manera mas especifica"),
           Rec("Usar palabras clave como 'estudiantes', 'profesores', 'carreras'"),
           Rec("Preguntar sobre estadisticas o datos especificos")>>]

\* ------------------------------------------------------- procesar_mensaje

W_isc == <<"i","s","c">>
W_profesores == <<"p","r","o","f","e","s","o","r","e","s">>
W_riesgo == <<"r","i","e","s","g","o">>
W_promedio == <<"p","r","o","m","e","d","i","o">>
W_horarios == <<"h","o","r","a","r","i","o","s">>

\* The messages handed to procesar_mensaje; "None" is a message that is no string.
Mensajes ==
    {"que hay", "alumnos de ISC", "que profesores hay", "alumnos en riesgo", "promedio",
     "busca a ana", "horarios", "como esta", "None"}

\* What analyze_message returns for each message: its search terms as
\* extract_search_terms computes them, and the intent and the categories found under
\* a catalog that knows the six intents of the generator, 'horarios' and the
\* category ISC. A message that is no string makes normalize_text raise.
analyze_message(message) ==
    CASE message = "que hay" ->
             [intent |-> "estadisticas_generales", entities |-> NoEntities,
              search_terms |-> << >>]
      [] message = "alumnos de ISC" ->
             [intent |-> "consulta_alumnos",
              entities |-> [NoEntities EXCEPT !.carreras = <<W_ISC>>],
              search_terms |-> <<W_alumnos, W_isc>>]
      [] message = "que profesores hay" ->
             [intent |-> "consulta_profesores", entities |-> NoEntities,
              search_terms |-> <<W_profesores>>]
      [] message = "alumnos en riesgo" ->
             [intent |-> "alumnos_riesgo", entities |-> NoEntities,
              search_terms |-> <<W_alumnos, W_riesgo>>]
      [] message = "promedio" ->
             [intent |-> "calificaciones_promedio", entities |-> NoEntities,
              search_terms |-> <<W_promedio>>]
      [] message = "busca a ana" ->
             [intent |-> "busqueda_especifica", entities |-> NoEntities,
              search_terms |-> <<W_ana>>]
      [] message = "horarios" ->
             [intent |-> "horarios", entities |-> NoEntities,
              search_terms |-> <<W_horarios>>]
      [] message = "como esta" ->
             [intent |-> "general", entities |-> NoEntities, search_terms |-> << >>]
      [] OTHER -> Raised("AttributeError")

\* The entry a processed message leaves in memory; of its fields the code reads
\* back intent_detectado only.
entrada_memoria(mensaje, analisis, respuesta) ==
    [mensaje_usuario |-> mensaje, intent_detectado |-> analisis.intent]

\* An except clause that lets the exception through.
procesar_except_propaga(e) == e

\* except Exception as e: return self._generar_respuesta_error()
procesar_except(e) == _generar_respuesta_error

MaxMensajes == 2

\* An await that hands control to the event loop at every coroutine it awaits.
cede_siempre(awaited) == TRUE

\* Whether 'await x(...)' lets another call run before x has run: awaiting a
\* coroutine of the object itself runs its body at once, up to an await of the data
\* store; _personalizar_respuesta and what it awaits never reach one.
cede_el_control(awaited) == awaited = "ejecutar_consulta"

ProcesarMensaje(c, mensaje, conversacion_id) ==
    /\ c \in slots
    /\ pc[c] = "idle"
    /\ running = 0
    /\ n_mensajes < MaxMensajes
    /\ n_mensajes' = n_mensajes + 1
    /\ running' = c
    /\ args' = [args EXCEPT ![c] = [mensaje |-> mensaje,
                                    conversacion_id |-> conversacion_id]]
    /\ analisis_nlp' = [analisis_nlp EXCEPT ![c] = analyze_message(mensaje)]
    /\ IF IsRaised(analyze_message(mensaje))
       THEN /\ pc' = [pc EXCEPT ![c] = "except"]
            /\ UNCHANGED sql_info
       ELSE /\ pc' = [pc EXCEPT ![c] = "ejecutar"]
            /\ sql_info' = [sql_info EXCEPT ![c] =
                   LET a == analyze_message(mensaje)
                   IN  generate_query(a.intent, a.entities, a.search_terms)]
    /\ UNCHANGED <<nlpVars, ejec, datos_resultado, respuesta_ia, retorno, traza, slots,
                   textVars, genVars, memVars>>

GenerarRespuesta(c, k) ==
    /\ pc[c] = "respuesta"
    /\ running = c
    /\ c \in slots
    /\ k \in 1..Len(templates_used(analisis_nlp[c].intent, datos_resultado[c]))
    /\ respuesta_ia' = [respuesta_ia EXCEPT ![c] =
           generate_response(analisis_nlp[c].intent, datos_resultado[c],
                             analisis_nlp[c].entities, k)]
    /\ pc' = [pc EXCEPT ![c] = "memoria"]
    /\ traza' = [traza EXCEPT ![c] =
           Append(@, Evento("generate_response", "", << >>, << >>, TRUE))]
    /\ UNCHANGED <<nlpVars, args, analisis_nlp, sql_info, ejec, datos_resultado, retorno,
                   running, slots, n_mensajes, textVars, genVars, memVars>>

ActualizarMemoria(c) ==
    /\ pc[c] = "memoria"
    /\ running = c
    /\ LET entrada == entrada_memoria(args[c].mensaje, analisis_nlp[c], respuesta_ia[c])
       IN  /\ conversation_memory' =
                  _actualizar_memoria_conversacional(conversation_memory,
                                                     args[c].conversacion_id, entrada)
           /\ appended' = [appended EXCEPT ![args[c].conversacion_id] = Append(@, entrada)]
           /\ traza' = [traza EXCEPT ![c] =
                  Append(@, Evento("append", "",
                                   <<args[c].conversacion_id,
                                     Len(appended[args[c].conversacion_id]) + 1>>,
                                   <<entrada>>, TRUE))]
    /\ pc' = [pc EXCEPT ![c] = "personalizar"]
    /\ running' = IF cede_el_control("_personalizar_respuesta") THEN 0 ELSE c
    /\ UNCHANGED <<nlpVars, args, analisis_nlp, sql_info, ejec, datos_resultado, respuesta_ia,
                   retorno, slots, n_mensajes, conversation_history, n_appends,
                   textVars, genVars>>

Personalizar(c) ==
    /\ pc[c] = "personalizar"
    /\ running = IF cede_el_control("_personalizar_respuesta") THEN 0 ELSE c
    /\ retorno' = [retorno EXCEPT ![c] =
           _personalizar_respuesta(respuesta_ia[c],
                                   memory_get(conversation_memory, args[c].conversacion_id),
                                   datos_resultado[c])]
    /\ traza' = [traza EXCEPT ![c] =
           IF IsRaised(integrar_datos(respuesta_ia[c], datos_resultado[c])) THEN @
           ELSE Append(@, Evento("read_memoria", "", <<args[c].conversacion_id>>,
                                 memory_get(conversation_memory, args[c].conversacion_id),
                                 TRUE))]
    /\ pc' = [pc EXCEPT ![c] = "done"]
    /\ running' = 0
    /\ UNCHANGED <<nlpVars, args, analisis_nlp, sql_info, ejec, datos_resultado, respuesta_ia,
                   slots, n_mensajes, textVars, genVars, memVars>>

Excepcion(c) ==
    /\ pc[c] = "except"
    /\ running = c
    /\ retorno' = [retorno EXCEPT ![c] = procesar_except(analisis_nlp[c])]
    /\ traza' = [traza EXCEPT ![c] =
           Append(@, Evento("except", "procesar_mensaje", << >>, << >>, FALSE))]
    /\ pc' = [pc EXCEPT ![c] = "done"]
    /\ running' = 0
    /\ UNCHANGED <<nlpVars, args, analisis_nlp, sql_info, ejec, datos_resultado, respuesta_ia,
                   slots, n_mensajes, textVars, genVars, memVars>>

\* The caller has the response; the call's locals are gone.
Retornar(c) ==
    /\ pc[c] \in {"done", "cancelled"}
    /\ pc' = [pc EXCEPT ![c] = "idle"]
    /\ args' = [args EXCEPT ![c] = NoArgs]
    /\ analisis_nlp' = [analisis_nlp EXCEPT ![c] = NoAnalisis]
    /\ sql_info' = [sql_info EXCEPT ![c] = NoSpec]
    /\ datos_resultado' = [datos_resultado EXCEPT ![c] = NoDatos]
    /\ respuesta_ia' = [respuesta_ia EXCEPT ![c] = NoRespuesta]
    /\ retorno' = [retorno EXCEPT ![c] = NoRespuesta]
    /\ traza' = [traza EXCEPT ![c] = << >>]
    /\ UNCHANGED <<nlpVars, ejec, running, slots, n_mensajes, textVars, genVars, memVars>>

\* One caller that awaits each call before it makes the next.
Init ==
    /\ pc = [c \in Calls |-> "idle"]
    /\ args = [c \in Calls |-> NoArgs]
    /\ analisis_nlp = [c \in Calls |-> NoAnalisis]
    /\ sql_info = [c \in Calls |-> NoSpec]
    /\ ejec = [c \in Calls |-> NoEjec]
    /\ datos_resultado = [c \in Calls |-> NoDatos]
    /\ respuesta_ia = [c \in Calls |-> NoRespuesta]
    /\ retorno = [c \in Calls |-> NoRespuesta]
    /\ traza = [c \in Calls |-> << >>]
    /\ running = 0
    /\ slots = {1}
    /\ n_mensajes = 0
    /\ IdleText /\ IdleGen /\ IdleMem /\ IdleNlp

Next ==
    \/ \E c \in Calls, mensaje \in Mensajes, conversacion_id \in ConvIds :
           ProcesarMensaje(c, mensaje, conversacion_id)
    \/ \E c \in Calls : EjecutarConsultas(c)
    \/ \E c \in Calls, result \in DbRows : DbRetorna(c, result)
    \/ \E c \in Calls : DbFalla(c)
    \/ \E c \in Calls, k \in 1..3 : GenerarRespuesta(c, k)
    \/ \E c \in Calls : ActualizarMemoria(c)
    \/ \E c \in Calls : Personalizar(c)
    \/ \E c \in Calls : Excepcion(c)
    \/ \E c \in Calls : Retornar(c)

Spec == Init /\ [][Next]_vars

\* ------------------------------------- a message that carries a statement

J_drop ==
    <<"D","R","O","P"," ","T","A","B","L","E"," ","a","l","u","m","n","o","s">>
J_busca_drop ==
    <<"b","u","s","c","a"," ","a"," ","A","n","a","'",";"," ","D","R","O","P"," ","T","A","B","L",
    "E"," ","a","l","u","m","n","o","s",";"," ","-","-">>
J_isc_drop ==
    <<"a","l","u","m","n","o","s"," ","d","e"," ","I","S","C"," ","D","R","O","P"," ","T","A","B",
    "L","E"," ","a","l","u","m","n","o","s">>
J_pegado ==
    <<"x","D","R","O","P"," ","T","A","B","L","E"," ","a","l","u","m","n","o","s">>

\* Messages that contain 'DROP TABLE alumnos'.
InjTexts == {J_drop, J_busca_drop, J_isc_drop, J_pegado}

\* For every intent name a catalog under which a text that mentions 'alumnos' is
\* classified as that intent; and no catalog at all.
InjCatalogs ==
    {[intents |-> <<[name |-> x, data |-> [keywords |-> <<W_alumnos>>]]>>,
      entities |-> E_catalogo] : x \in IntentNames}
    \cup {[entities |-> E_catalogo]}

\* analyze_message: the fields procesar_mensaje hands to generate_query.
analyze_message_of(text, intents_data) ==
    classify_intent(text, intents_data) @@ [search_terms |-> extract_search_terms(text)]

InitInj ==
    /\ n_in \in [text : InjTexts, intents_data : InjCatalogs]
    /\ n_out = NoNlp
    /\ IdleText /\ IdleGen /\ IdleMem /\ IdleCalls

InjAnalyze ==
    /\ n_out = NoNlp
    /\ n_out' = analyze_message_of(n_in.text, n_in.intents_data)
    /\ UNCHANGED <<n_in, textVars, genVars, memVars, callVars>>

InjGenerate ==
    /\ n_out # NoNlp
    /\ g_out = NoSpec
    /\ g_in' = [intent |-> n_out.intent, entities |-> n_out.entities,
                search_terms |-> n_out.search_terms]
    /\ g_out' = generate_query(n_out.intent, n_out.entities, n_out.search_terms)
    /\ UNCHANGED <<nlpVars, g_valid, textVars, memVars, callVars>>

\* procesar_mensaje hands the spec to _ejecutar_consultas.
InjEjecutar ==
    /\ g_out # NoSpec
    /\ pc[1] = "idle"
    /\ sql_info[1] = NoSpec
    /\ sql_info' = [sql_info EXCEPT ![1] = g_out]
    /\ pc' = [pc EXCEPT ![1] = "ejecutar"]
    /\ running' = 1
    /\ UNCHANGED <<nlpVars, args, analisis_nlp, ejec, datos_resultado, respuesta_ia, retorno,
                   traza, slots, n_mensajes, textVars, genVars, memVars>>

NextInj ==
    \/ InjAnalyze
    \/ InjGenerate
    \/ GenValidate
    \/ InjEjecutar
    \/ \E c \in Calls : EjecutarConsultas(c)
    \/ \E c \in Calls, result \in DbRows : DbRetorna(c, result)
    \/ \E c \in Calls : DbFalla(c)

SpecInj == InitInj /\ [][NextInj]_vars

\* ------------------------------------- a message, analyzed and then executed

X_riesgo_alto ==
    <<"a","l","u","m","n","o","s"," ","e","n"," ","r","i","e","s","g","o"," ","a","l","t","o"," ",
    "a","c","a","d","e","m","i","c","o"," ","d","e"," ","I","S","C">>
X_busca_ana ==
    <<"b","u","s","c","a"," ","a"," ","A","n","a"," ","L","o","p","e","z">>
X_alumnos_ana ==
    <<"a","l","u","m","n","o","s"," ","A","n","a">>
X_que_tal ==
    <<"q","u","e"," ","t","a","l">>

\* Messages with and without search terms, one of them naming a risk level, a risk
\* type and a category; and the empty message.
ConsultaTexts == {X_riesgo_alto, X_busca_ana, X_alumnos_ana, X_que_tal, << >>}

\* The entity lists of a catalog that names risk types and risk levels as well.
E_riesgo ==
    [carreras |-> E_catalogo.carreras,
     cuatrimestres |-> E_catalogo.cuatrimestres,
     tipos_riesgo |-> <<W_academico>>,
     niveles_riesgo |-> <<W_alto, <<"c","r","i","t","i","c","o">>>>]

\* For every intent name a catalog under which a text that mentions 'alumnos' is
\* classified as that intent; and a catalog without intents.
ConsultaCatalogs ==
    {[intents |-> <<[name |-> x, data |-> [keywords |-> <<W_alumnos>>]]>>,
      entities |-> E_riesgo] : x \in IntentNames}
    \cup {[entities |-> E_riesgo]}

InitConsulta ==
    /\ n_in \in [text : ConsultaTexts, intents_data : ConsultaCatalogs]
    /\ n_out = NoNlp
    /\ IdleText /\ IdleGen /\ IdleMem /\ IdleCalls

SpecConsulta == InitConsulta /\ [][NextInj]_vars

\* ------------------------------------------- procesar_mensaje, concurrently

\* Messages of the concurrent callers: the statistics spec (four awaits), a single
\* spec, a search whose statement is rejected (no await) and a message that raises.
MensajesConc == {"que hay", "alumnos de ISC", "busca a ana", "None"}

\* Nine entries left by earlier calls on conversation 101.
HistoriaPrevia ==
    [i \in 1..(MemoryCap - 1) |->
        [mensaje_usuario |-> IF i % 2 = 1 THEN "que hay" ELSE "promedio",
         intent_detectado |-> IF i % 2 = 1 THEN "estadisticas_generales"
                              ELSE "calificaciones_promedio"]]

\* Two callers, each making one call while the other's may be in flight; conversation
\* 101 already has a history one short of the cap, conversation 102 has none.
InitConc ==
    /\ pc = [c \in Calls |-> "idle"]
    /\ args = [c \in Calls |-> NoArgs]
    /\ analisis_nlp = [c \in Calls |-> NoAnalisis]
    /\ sql_info = [c \in Calls |-> NoSpec]
    /\ ejec = [c \in Calls |-> NoEjec]
    /\ datos_resultado = [c \in Calls |-> NoDatos]
    /\ respuesta_ia = [c \in Calls |-> NoRespuesta]
    /\ retorno = [c \in Calls |-> NoRespuesta]
    /\ traza = [c \in Calls |-> << >>]
    /\ running = 0
    /\ slots = Calls
    /\ n_mensajes = 0
    /\ conversation_memory = (101 :> HistoriaPrevia)
    /\ appended = [conv \in ConvIds |-> IF conv = 101 THEN HistoriaPrevia ELSE << >>]
    /\ conversation_history = << >>
    /\ n_appends = 0
    /\ IdleText /\ IdleGen /\ IdleNlp

NextConc ==
    \/ \E c \in Calls, mensaje \in MensajesConc, conversacion_id \in ConvIds :
           /\ n_mensajes < Cardinality(Calls)
           /\ ProcesarMensaje(c, mensaje, conversacion_id)
    \/ \E c \in Calls : EjecutarConsultas(c)
    \/ \E c \in Calls, result \in DbRows : DbRetorna(c, result)
    \/ \E c \in Calls : DbFalla(c)
    \/ \E c \in Calls : Cancelar(c)
    \/ \E c \in Calls, k \in 1..3 : GenerarRespuesta(c, k)
    \/ \E c \in Calls : ActualizarMemoria(c)
    \/ \E c \in Calls : Personalizar(c)
    \/ \E c \in Calls : Excepcion(c)
    \/ \E c \in Calls : Retornar(c)

SpecConc == InitConc /\ [][NextConc]_vars

\* ------------------------------------ procesar_mensaje on the risk reports

\* Rows of the risk statement, of which the code reads nivel_riesgo only.
FilaRiesgo(nivel) == [nivel_riesgo |-> nivel]

\* What the data store may answer to the risk statement: no row, one row of each
\* kind, a few rows, and more than ten rows (the statement has LIMIT 40).
FilasRiesgo ==
    {<< >>,
     <<FilaRiesgo("alto")>>,
     <<FilaRiesgo("bajo")>>,
     <<FilaRiesgo("critico"), FilaRiesgo("bajo"), FilaRiesgo("alto")>>,
     [i \in 1..(max_rows + 1) |-> FilaRiesgo(IF i % 2 = 1 THEN "critico" ELSE "medio")]}

MensajesRiesgo == {"alumnos en riesgo", "alumnos de ISC", "None"}

NextRiesgo ==
    \/ \E c \in Calls, mensaje \in MensajesRiesgo, conversacion_id \in ConvIds :
           ProcesarMensaje(c, mensaje, conversacion_id)
    \/ \E c \in Calls : EjecutarConsultas(c)
    \/ \E c \in Calls, result \in FilasRiesgo : DbRetorna(c, result)
    \/ \E c \in Calls : DbFalla(c)
    \/ \E c \in Calls, k \in 1..3 : GenerarRespuesta(c, k)
    \/ \E c \in Calls : ActualizarMemoria(c)
    \/ \E c \in Calls : Personalizar(c)
    \/ \E c \in Calls : Excepcion(c)
    \/ \E c \in Calls : Retornar(c)

SpecRiesgo == Init /\ [][NextRiesgo]_vars

\* ------------------------------------------------------------ C7, C8

\* The conditions of C7, stated on the text itself.
Occurs(kw, t) == \E i \in 1..Len(t) : \E j \in i..Len(t) : SubSeq(t, i, j) = kw

Occurrences(kw, t) ==
    Cardinality({i \in 1..Len(t) : i + Len(kw) - 1 <= Len(t)
                                   /\ SubSeq(t, i, i + Len(kw) - 1) = kw})

RECURSIVE Chars(_)
Chars(t) == IF t = << >> THEN 0
            ELSE (IF Head(t) \in {"z*1990", "Z*1990"} THEN 1990 ELSE 1) + Chars(Tail(t))

RECURSIVE LTrim(_)
LTrim(t) == IF t # << >> /\ Head(t) \in {" ", "\n", "\t"} THEN LTrim(Tail(t)) ELSE t

BeginsWithSelect(t) ==
    LET u == LTrim(upper(t)) IN Len(u) >= 6 /\ SubSeq(u, 1, 6) = K_SELECT

\* C7: validate_query(q) is true only if q, upper-cased and trimmed, starts
\* with SELECT, q upper-cased holds no blacklisted keyword (UNION included),
\* q holds none of the comment markers, SELECT occurs at most 3 times in q
\* upper-cased, and len(q) <= 2000.
C7_ValidateOnlyIf ==
    q_valid = "true" =>
        LET q == q_hist[1] IN
        /\ BeginsWithSelect(q)
        /\ \A k \in 1..Len(dangerous_keywords) : ~Occurs(dangerous_keywords[k], upper(q))
        /\ ~Occurs(<<"U","N","I","O","N">>, upper(q))
        /\ ~Occurs(<<"-","-">>, q) /\ ~Occurs(<<"/","*">>, q) /\ ~Occurs(<<"*","/">>, q)
        /\ Occurrences(K_SELECT, upper(q)) <= 3
        /\ Chars(q) <= 2000

\* A statement with leading whitespace, a lower-case SELECT and a filler run
\* (more than 1990 characters) that validate_query accepted.
C7_Witness ==
    /\ q_valid = "true"
    /\ Head(q_hist[1]) = " "
    /\ Occurs(<<"s","e","l","e","c","t">>, q_hist[1])
    /\ Chars(q_hist[1]) > 1990

\* C8: optimize_query is idempotent: optimizing the output of optimize_query
\* again gives the same text.
C8_OptimizeIdempotent == Len(q_hist) >= 3 => q_hist[3] = q_hist[2]

\* ------------------------------------------------------------ C2, C3

\* C2: after any sequence of memory appends and clears, the history held
\* for a single conversation never has more than 10 entries (ChatBotAI's
\* per-id lists and ConversationAI's list).
C2_HistoryAtMostTen ==
    /\ \A c \in DOMAIN conversation_memory : Len(conversation_memory[c]) <= 10
    /\ Len(conversation_history) <= 10

\* A conversation that received 11 entries and holds 10.
C2_Witness ==
    \E c \in DOMAIN conversation_memory :
        Len(appended[c]) = 11 /\ Len(conversation_memory[c]) = 10

\* C3: after n appends e1..en to one conversation id, its history is
\* exactly the last min(n, 10) of them, oldest first.
C3_LastTenInOrder ==
    \A c \in ConvIds :
        LET h == IF c \in DOMAIN conversation_memory THEN conversation_memory[c] ELSE << >>
            n == Len(appended[c])
            k == IF n < 10 THEN n ELSE 10
        IN  /\ Len(h) = k
            /\ \A i \in 1..k : h[i] = appended[c][n - k + i]

\* Eleven appends to one id whose first two entries differ: the oldest was
\* evicted and the second one now leads.
C3_Witness ==
    \E c \in ConvIds :
        /\ Len(appended[c]) = 11
        /\ appended[c][1] # appended[c][2]
        /\ c \in DOMAIN conversation_memory
        /\ conversation_memory[c][1] = appended[c][2]

\* ----------------------------------------------------------------- C6

FallbackText ==
    <<"S","E","L","E","C","T"," ","'","N","o"," ","s","e"," ","p","u","d","o"," ",
      "p","r","o","c","e","s","a","r"," ","l","a"," ","c","o","n","s","u","l","t","a","'",
      " ","a","s"," ","m","e","n","s","a","j","e">>

IsFallbackSpec(spec) ==
    /\ "query" \in DOMAIN spec
    /\ spec.query_type = "single"
    /\ spec.query = FallbackText

\* C6 as stated: generate_query never propagates an exception, and for
\* every intent that is not a recognized one it returns the fallback spec
\* (single, "SELECT 'No se pudo procesar la consulta' as mensaje").
C6_UnrecognizedGivesFallback ==
    g_out # NoSpec =>
        /\ "exception" \notin DOMAIN g_out
        /\ g_in.intent \notin RecognizedIntents => IsFallbackSpec(g_out)

\* C6 amended: generate_query never propagates an exception; it returns the
\* fallback spec when the dispatched builder raises (consulta_profesores) and
\* for busqueda_especifica without search terms; for an intent that is not
\* recognized it returns the four-label multiple statistics spec when there
\* are no search terms and the single search statement (with UNION ALL)
\* when there are.
C6_GenerateTotal ==
    g_out # NoSpec =>
        /\ "exception" \notin DOMAIN g_out
        /\ g_in.intent = "consulta_profesores" => IsFallbackSpec(g_out)
        /\ (g_in.intent = "busqueda_especifica" /\ g_in.search_terms = << >>)
               => IsFallbackSpec(g_out)
        /\ (g_in.intent \notin RecognizedIntents /\ g_in.search_terms = << >>) =>
               /\ g_out.query_type = "multiple"
               /\ {g_out.queries[i].key : i \in 1..Len(g_out.queries)} =
                      {"total_alumnos", "total_profesores", "total_carreras",
                       "promedio_general"}
        /\ (g_in.intent \notin RecognizedIntents /\ g_in.search_terms # << >>) =>
               /\ g_out.query_type = "single"
               /\ Occurs(<<"U","N","I","O","N"," ","A","L","L">>, g_out.query)
               /\ ~IsFallbackSpec(g_out)

\* An intent the generator does not know, with search terms, answered by the
\* search statement.
C6_Witness ==
    /\ g_in.intent = "horarios"
    /\ g_in.search_terms # << >>
    /\ g_out # NoSpec
    /\ g_out.query_type = "single"

\* ------------------------------------------------------------ C1, C9, C10

\* The statement a spec holds under a key ("query" for a single spec).
StatementOf(si, key) ==
    IF si.query_type = "single" THEN get_query(si)
    ELSE get_queries(si)[CHOOSE k \in 1..Len(get_queries(si)) : get_queries(si)[k].key = key].query

Returned(c) == datos_resultado[c] # NoDatos

EmptyFor(datos, key) ==
    \/ datos.data = << >>
    \/ /\ datos.query_type = "multiple"
       /\ dict_has(datos.data, key)
       /\ dict_get(datos.data, key) = << >>

\* C1: in a call of _ejecutar_consultas, ejecutar_consulta is awaited only for a
\* statement of the spec that validate_query accepted earlier in that call; a
\* statement validate_query rejects is never sent, and once the call has returned
\* the data under its key is empty.
C1_SentOnlyIfValidated ==
    \A c \in Calls :
        LET tr == traza[c]
        IN  /\ \A i \in 1..Len(tr) :
                   tr[i].op = "execute" =>
                       \E j \in 1..(i - 1) :
                           /\ tr[j].op = "validate"
                           /\ tr[j].key = tr[i].key
                           /\ tr[j].arg = StatementOf(sql_info[c], tr[i].key)
                           /\ tr[j].ok
                           /\ validate_query(tr[j].arg)
            /\ \A j \in 1..Len(tr) :
                   (tr[j].op = "validate" /\ ~validate_query(tr[j].arg)) =>
                       /\ \A i \in 1..Len(tr) :
                              tr[i].op = "execute" => tr[i].key # tr[j].key
                       /\ Returned(c) => EmptyFor(datos_resultado[c], tr[j].key)

\* A multiple spec has returned with one label rejected and another one sent.
C1_Witness ==
    \E c \in Calls :
        /\ Returned(c)
        /\ datos_resultado[c].query_type = "multiple"
        /\ \E i, j \in 1..Len(traza[c]) :
               /\ traza[c][i].op = "execute"
               /\ traza[c][j].op = "validate"
               /\ ~traza[c][j].ok

\* C9: every statement sent to the data store was accepted by validate_query, then
\* given to optimize_query, in that order and in the same call; optimize_query was
\* called exactly once for it, on the statement of the spec, and the text sent is
\* what that call returned.
C9_OptimizedExactlyOnce ==
    \A c \in Calls :
        LET tr == traza[c]
        IN  \A i \in 1..Len(tr) :
                tr[i].op = "execute" =>
                    LET opt == {j \in 1..Len(tr) : tr[j].op = "optimize"
                                                   /\ tr[j].key = tr[i].key}
                    IN  /\ Cardinality(opt) = 1
                        /\ \A j \in opt :
                               /\ j < i
                               /\ tr[j].arg = StatementOf(sql_info[c], tr[i].key)
                               /\ tr[j].out = optimize_query(tr[j].arg)
                               /\ tr[i].arg = tr[j].out
                               /\ \E k \in 1..(j - 1) :
                                      /\ tr[k].op = "validate"
                                      /\ tr[k].key = tr[i].key
                                      /\ tr[k].arg = tr[j].arg
                                      /\ tr[k].ok

\* A multiple spec has returned after sending three statements, one of which a second
\* optimize_query would have changed again.
C9_Witness ==
    \E c \in Calls :
        /\ Returned(c)
        /\ datos_resultado[c].query_type = "multiple"
        /\ Cardinality({i \in 1..Len(traza[c]) : traza[c][i].op = "execute"}) = 3
        /\ \E j \in 1..Len(traza[c]) :
               /\ traza[c][j].op = "optimize"
               /\ traza[c][j].out # traza[c][j].arg
               /\ optimize_query(traza[c][j].out) # traza[c][j].out

\* C10: when the data-store call of one label of a multiple spec raises, the call
\* still sends every other accepted statement and returns a multiple result that
\* has every label of the spec.
C10_OtherLabelsSurvive ==
    \A c \in Calls :
        (/\ Returned(c)
         /\ "query_type" \in DOMAIN sql_info[c]
         /\ sql_info[c].query_type = "multiple"
         /\ \E i \in 1..Len(traza[c]) : traza[c][i].op = "db_raise")
        => /\ datos_resultado[c].query_type = "multiple"
           /\ \A k \in 1..Len(get_queries(sql_info[c])) :
                  LET q == get_queries(sql_info[c])[k]
                  IN  /\ dict_has(datos_resultado[c].data, q.key)
                      /\ validate_query(q.query) =>
                             \E i \in 1..Len(traza[c]) :
                                 traza[c][i].op = "execute" /\ traza[c][i].key = q.key

\* ------------------------------------------------------------ C4, C5

Done(c) == pc[c] = "done"

\* A stage of the call failed: the data store raised, validate_query rejected a
\* statement, or procesar_mensaje caught an exception.
Failed(c) ==
    \E i \in 1..Len(traza[c]) :
        \/ traza[c][i].op \in {"db_raise", "except"}
        \/ traza[c][i].op = "validate" /\ ~traza[c][i].ok

\* C4: what procesar_mensaje hands back is never an exception: whichever stage
\* failed, it is a response that has respuesta, datos_contexto and recomendaciones.
C4_AlwaysWellFormed ==
    \A c \in Calls :
        Done(c) => /\ ~IsRaised(retorno[c])
                   /\ {"respuesta", "datos_contexto", "recomendaciones"}
                          \subseteq DOMAIN retorno[c]

\* A call has returned from its except clause.
C4_Witness ==
    \E c \in Calls :
        /\ Done(c)
        /\ \E i \in 1..Len(traza[c]) : traza[c][i].op = "except"
        /\ ~IsRaised(retorno[c])
        /\ retorno[c].datos_contexto.tipo_consulta = "error_sistema"

\* C5: the response of a call in which a stage failed has datos_contexto.error
\* equal to true.
C5_FailureSetsErrorFlag ==
    \A c \in Calls :
        (Done(c) /\ Failed(c)) =>
            /\ "error" \in DOMAIN retorno[c].datos_contexto
            /\ retorno[c].datos_contexto.error = TRUE


\* ----------------------------------------------------------- C11, C12

Classified == "intent" \in DOMAIN n_out

CatalogNames ==
    {get_intents(n_in.intents_data)[i].name : i \in 1..Len(get_intents(n_in.intents_data))}

\* C11: for every text and catalog, classify_intent returns an intent that is a name
\* of the catalog or "general", and a confidence between 0 and 1.
C11_KnownIntentUnitConfidence ==
    Classified =>
        /\ n_out.intent \in CatalogNames \cup {"general"}
        /\ 0 <= n_out.confidence.n
        /\ n_out.confidence.n <= n_out.confidence.d

frac_eq(x, y) == x.n * y.d = y.n * x.d

\* The score of each intent of the catalog, in the order of the catalog.
ScoreOf(i) ==
    calculate_intent_similarity(n_in.text, get_intents(n_in.intents_data)[i].data)

\* i scores highest, and no earlier intent scores as much.
IsBest(i) ==
    \A j \in 1..Len(get_intents(n_in.intents_data)) :
        /\ ~frac_lt(ScoreOf(i), ScoreOf(j))
        /\ j < i => frac_lt(ScoreOf(j), ScoreOf(i))

\* C12: when the best score over the catalog is below 0.3 (also with no catalog) the
\* result is "general" with confidence 0.5; otherwise it is the best-scoring intent
\* with its score as confidence.
C12_ThresholdRule ==
    Classified =>
        IF \A i \in 1..Len(get_intents(n_in.intents_data)) : frac_lt(ScoreOf(i), Frac(3, 10))
        THEN n_out.intent = "general" /\ frac_eq(n_out.confidence, Frac(1, 2))
        ELSE \E i \in 1..Len(get_intents(n_in.intents_data)) :
                 /\ IsBest(i)
                 /\ n_out.intent = get_intents(n_in.intents_data)[i].name
                 /\ frac_eq(n_out.confidence, ScoreOf(i))

\* A text whose best score is 0.3 exactly has been classified as that intent.
C12_Witness ==
    /\ Classified
    /\ n_out.intent = "umbral"
    /\ frac_eq(n_out.confidence, Frac(3, 10))


\* ----------------------------------------------------------------- C13

\* C13: for intent estadisticas_generales, whatever the entities and search terms,
\* generate_query returns a spec of query_type "multiple" whose labels are exactly
\* total_alumnos, total_profesores, total_carreras and promedio_general.
C13_StatsLabels ==
    (g_out # NoSpec /\ g_in.intent = "estadisticas_generales") =>
        /\ g_out.query_type = "multiple"
        /\ {g_out.queries[i].key : i \in 1..Len(g_out.queries)}
               = {"total_alumnos", "total_profesores", "total_carreras", "promedio_general"}
        /\ Len(g_out.queries) = 4

\* The statistics spec has been generated from entities and search terms that are
\* not empty.
C13_Witness ==
    /\ g_out # NoSpec
    /\ g_in.intent = "estadisticas_generales"
    /\ g_in.entities.carreras # << >>
    /\ g_in.search_terms # << >>
    /\ g_out.query_type = "multiple"


\* ------------------------------------------------------ C14, C15, C16, C17

\* The places of the events of kind op in the trace of call c.
EventsOf(c, op) == {i \in 1..Len(traza[c]) : traza[c][i].op = op}

\* Call c returned a response that did not come from the except clause.
ReturnedNormally(c) == Done(c) /\ EventsOf(c, "except") = {}

\* C14: a call that returns a non-error response has appended exactly one entry, to
\* the history of its own conversation id, after generate_response returned; the
\* history holds every entry appended (a message equal to the previous one included),
\* the entry of this call last.
C14_OneAppendAfterSynthesis ==
    \A c \in Calls :
        ReturnedNormally(c) =>
            LET conv == args[c].conversacion_id
                memoria == memory_get(conversation_memory, conv)
            IN  /\ Cardinality(EventsOf(c, "append")) = 1
                /\ \A i \in EventsOf(c, "append") :
                       /\ traza[c][i].arg[1] = conv
                       /\ \E j \in EventsOf(c, "generate_response") : j < i
                /\ memoria = last(appended[conv], MemoryCap)
                /\ memoria # << >>
                /\ memoria[Len(memoria)].mensaje_usuario = args[c].mensaje

\* The same message has been processed twice in a row in one conversation, and its
\* history holds two entries for it.
C14_Witness ==
    \E c \in Calls :
        /\ ReturnedNormally(c)
        /\ LET memoria == memory_get(conversation_memory, args[c].conversacion_id)
           IN  /\ Len(memoria) = 2
               /\ memoria[1].mensaje_usuario = args[c].mensaje
               /\ memoria[2].mensaje_usuario = args[c].mensaje

\* C15: a call cancelled while it waits (at an await of the data store, the only
\* place where it is suspended) appends no entry to any history.
C15_CancelledAppendsNothing ==
    \A c \in Calls :
        EventsOf(c, "cancel") # {} =>
            /\ EventsOf(c, "append") = {}
            /\ pc[c] \in {"cancelled", "idle"}

\* A call has been cancelled at its second await, after the data store answered the
\* first.
C15_Witness ==
    \E c \in Calls :
        /\ pc[c] = "cancelled"
        /\ EventsOf(c, "db_return") # {}
        /\ retorno[c] = Raised("CancelledError")

\* C16: with calls on the same conversation id interleaved at their awaits, the
\* history of every conversation is the last ten of the entries appended to it, in
\* the order of the appends, and never longer than ten.
C16_NoLostUpdate ==
    \A conv \in ConvIds :
        LET memoria == memory_get(conversation_memory, conv)
            n == Len(appended[conv])
        IN  /\ Len(memoria) <= MemoryCap
            /\ Len(memoria) = IF n < MemoryCap THEN n ELSE MemoryCap
            /\ \A k \in 1..Len(memoria) : memoria[k] = appended[conv][n - Len(memoria) + k]

\* While call 1 waits for the data store with conversation 101, call 2 has appended
\* to the same conversation and filled its history.
C16_Witness ==
    /\ pc[1] = "await_db"
    /\ args[1].conversacion_id = 101
    /\ ReturnedNormally(2)
    /\ args[2].conversacion_id = 101
    /\ EventsOf(2, "append") # {}
    /\ Len(memory_get(conversation_memory, 101)) = MemoryCap

HasMarker(respuesta) ==
    /\ respuesta.respuesta # << >>
    /\ respuesta.respuesta[1] = "Continuando con el analisis anterior..."

\* C17: the response of a processed message begins with the marker exactly when the
\* entry before it in the same conversation has the same detected intent.
C17_MarkerIffSameIntent ==
    \A c \in Calls :
        ReturnedNormally(c) =>
            LET memoria == memory_get(conversation_memory, args[c].conversacion_id)
            IN  HasMarker(retorno[c])
                    <=> /\ Len(memoria) > 1
                        /\ memoria[Len(memoria) - 1].intent_detectado = analisis_nlp[c].intent


\* ----------------------------------------------------------------- C18

K_DROP == <<"D","R","O","P">>

\* C18: for a message that contains 'DROP TABLE alumnos', every statement generate_query
\* builds with the term drop written into it is rejected by validate_query, and no
\* statement with that word in it is sent to the data store.
C18_InjectedNeverExecuted ==
    /\ \A i \in 1..Len(g_valid) :
           contains(W_drop, Statements(g_out)[i]) => ~g_valid[i]
    /\ \A c \in Calls : \A i \in EventsOf(c, "execute") :
           ~contains(K_DROP, upper(traza[c][i].arg))

\* The students statement built from the terms drop, table, alumnos has been rejected
\* and _ejecutar_consultas has returned without a call to the data store.
C18_Witness ==
    /\ g_in.intent = "consulta_alumnos"
    /\ g_valid = <<FALSE>>
    /\ contains(W_drop, Statements(g_out)[1])
    /\ Returned(1)
    /\ EventsOf(1, "execute") = {}


\* ------------------------------------------------------------ C19, C20

\* C19: an append for one conversation id leaves the history of every other
\* conversation id as it was, also when the append evicts.
C19_OtherHistoriesUntouched ==
    [][\A a \in ConvIds, b \in ConvIds :
          (a # b /\ appended'[a] # appended[a]) =>
              /\ (b \in DOMAIN conversation_memory') = (b \in DOMAIN conversation_memory)
              /\ memory_get(conversation_memory', b) = memory_get(conversation_memory, b)]_vars

\* Conversation 101 has had more appends than the cap, and conversation 102 still
\* holds exactly what was appended to it.
C19_Witness ==
    /\ Len(appended[101]) > MemoryCap
    /\ appended[102] # << >>
    /\ memory_get(conversation_memory, 102) = appended[102]
    /\ Len(memory_get(conversation_memory, 101)) = MemoryCap

\* C20: optimize_query puts DISTINCT right after SELECT in every statement that
\* joins more than two tables (two JOINs or more) and has no DISTINCT yet.
C20_DistinctForThreeTables ==
    \A c \in Calls : \A i \in EventsOf(c, "optimize") :
        (/\ count(K_JOIN, traza[c][i].arg) >= 2
         /\ ~contains(K_DISTINCT, upper(traza[c][i].arg))
         /\ contains(K_SELECT_, traza[c][i].arg))
            => contains(K_SELECT_DISTINCT_, traza[c][i].out)


\* ------------------------------------------------------------ C21, C24

\* The first piece of the two templates of response_templates['error'] and of the
\* response of _generar_respuesta_error.
ErrorTemplates ==
    {response_templates.error[1], response_templates.error[2],
     _generar_respuesta_error.respuesta[1]}

\* The data store raised while call c executed a single spec.
SingleRaised(c) ==
    \E i \in EventsOf(c, "db_raise") : traza[c][i].key = "query"

\* C21: when the data store raises on the statement of a single spec, the response
\* of procesar_mensaje is an error template, whatever the intent: never the template
\* of the detected intent.
C21_DbFailureGivesErrorTemplate ==
    \A c \in Calls :
        (Done(c) /\ SingleRaised(c)) =>
            /\ retorno[c].respuesta[1] \in ErrorTemplates
            /\ retorno[c].datos_contexto.tipo_consulta \in {"error", "error_sistema"}

\* The range of a sequence.
Range(s) == {s[i] : i \in 1..Len(s)}

\* The statement of a single spec was executed for call c and gave no row.
SingleNoRows(c) ==
    /\ ReturnedNormally(c)
    /\ datos_resultado[c].query_type = "single"
    /\ datos_resultado[c].data = << >>

\* C24: when the statement of a single spec returns no row, the text of the response
\* is the 'no results' message and none of the suggestions generate_response wrote
\* for the intent is left in its recommendations.
C24_NoRowsGivesNoResults ==
    \A c \in Calls :
        SingleNoRows(c) =>
            /\ "No se encontraron resultados para esta consulta."
                   \in Range(retorno[c].respuesta)
            /\ Range(retorno[c].recomendaciones)
                   \cap Range(respuesta_ia[c].recomendaciones) = {}


\* ----------------------------------------------------------------- C22

\* C22: a keyword of an intent definition adds at most 1.0 to the keyword count (1.0
\* when it is in the normalized text, 0.8 instead when a synonym group matches it),
\* so the keyword score of every intent of the catalog is at most 1.0. Points are
\* tenths.
C22_KeywordAtMostOne ==
    Classified =>
        \A i \in 1..Len(get_intents(n_in.intents_data)) :
            LET keywords == get_keywords(get_intents(n_in.intents_data)[i].data)
                normalized_text == normalize_text(n_in.text)
            IN  /\ \A k \in 1..Len(keywords) :
                       keyword_points(keywords[k], normalized_text) <= 10
                /\ sum_points(keywords, normalized_text)
                       <= 10 * (IF Len(keywords) > 1 THEN Len(keywords) ELSE 1)


\* ----------------------------------------------------------------- C23

\* Where in the normalized text the category is first matched: by its normalized
\* name or by one of the words of it. 0 when it is not matched.
FirstMatch(carrera, normalized_text) ==
    LET carrera_norm == normalize_text(carrera)
        words == split(carrera_norm)
        P == {p \in 1..Len(normalized_text) :
                  \/ MatchAt(carrera_norm, normalized_text, p)
                  \/ \E w \in 1..Len(words) : MatchAt(words[w], normalized_text, p)}
    IN  IF P = {} THEN 0 ELSE Min(P)

\* C23: the categories extract_entities returns are in the order in which the text
\* first mentions them, so that the first one, the filter value of the generator, is
\* the category the message mentions first.
C23_CategoriesInTextOrder ==
    Classified =>
        LET carreras == n_out.entities.carreras
            normalized_text == normalize_text(n_in.text)
        IN  \A i \in 1..Len(carreras) : \A j \in i..Len(carreras) :
                FirstMatch(carreras[i], normalized_text)
                    <= FirstMatch(carreras[j], normalized_text)


\* ----------------------------------------------------------------- C25

\* The rows of the answer whose nivel_riesgo is 'alto' or 'critico'.
Criticos(rows) ==
    {i \in 1..Len(rows) : row_get(rows[i], "nivel_riesgo", "None") \in {"alto", "critico"}}

\* C25: when the risk statement of intent alumnos_riesgo returns a row whose
\* nivel_riesgo is 'alto' or 'critico', the recommendations of the response hold the
\* urgent-attention suggestion with the count of such rows, and the mass-intervention
\* suggestion too when more than ten rows came back.
C25_UrgentSuggestion ==
    \A c \in Calls :
        (/\ ReturnedNormally(c)
         /\ analisis_nlp[c].intent = "alumnos_riesgo"
         /\ datos_resultado[c].query_type = "single"
         /\ Criticos(datos_resultado[c].data) # {}) =>
            /\ RecN("Atencion URGENTE: {n} casos criticos",
                    Cardinality(Criticos(datos_resultado[c].data)))
                   \in Range(retorno[c].recomendaciones)
            /\ Len(datos_resultado[c].data) > 10 =>
                   Rec("Alta cantidad de reportes - implementar intervencion masiva")
                       \in Range(retorno[c].recomendaciones)


\* ----------------------------------------------------------- C26, C28

K_UNION == <<"U","N","I","O","N">>

\* The analysis goes to _generate_search_query with search terms: intent
\* busqueda_especifica, or an intent the generator does not know.
IsSearchRequest ==
    /\ n_out # NoNlp
    /\ n_out.intent \notin (RecognizedIntents \ {"busqueda_especifica"})
    /\ n_out.search_terms # << >>

\* C26: the spec generate_query builds for a search with search terms is a single
\* statement with UNION in it, which validate_query rejects; nothing is sent to the
\* data store for it and _ejecutar_consultas returns the error result without rows.
C26_SearchAlwaysRejected ==
    (IsSearchRequest /\ g_out # NoSpec) =>
        /\ g_out.query_type = "single"
        /\ contains(K_UNION, upper(g_out.query))
        /\ g_valid # << >> => g_valid = <<FALSE>>
        /\ \A c \in Calls :
               /\ EventsOf(c, "execute") = {}
               /\ Returned(c) => /\ datos_resultado[c].query_type = "error"
                                 /\ datos_resultado[c].data = << >>

\* A message classified 'general' with two search terms has gone through
\* _ejecutar_consultas: its statement was validated, rejected and not sent.
C26_Witness ==
    /\ IsSearchRequest
    /\ n_out.intent = "general"
    /\ Len(n_out.search_terms) = 2
    /\ g_valid = <<FALSE>>
    /\ Returned(1)
    /\ \E i \in EventsOf(1, "validate") : ~traza[1][i].ok
    /\ EventsOf(1, "execute") = {}

\* C28: extract_entities returns no risk type and no risk level, whatever the
\* message and the catalog; so the risk statement built from an analysis has the
\* open-reports condition, at most one more condition, which is the category
\* condition, and no condition on tipo_riesgo or nivel_riesgo.
C28_RiskEntitiesEmpty ==
    /\ n_out # NoNlp =>
           /\ n_out.entities.tipos_riesgo = << >>
           /\ n_out.entities.niveles_riesgo = << >>
    /\ (g_out # NoSpec /\ g_in.intent = "alumnos_riesgo") =>
           /\ g_out.query_type = "single"
           /\ contains(T_abiertos, g_out.query)
           /\ ~contains(T_tipo_eq, g_out.query)
           /\ ~contains(T_nivel_eq, g_out.query)
           /\ count(T_AND, g_out.query) <= 1
           /\ count(T_AND, g_out.query) = 1 => contains(T_AND \o T_carrera_like, g_out.query)

\* The risk statement has been built for a message that names a risk level and a
\* risk type the catalog lists, and a category: it has the category condition.
C28_Witness ==
    /\ n_in.text = X_riesgo_alto
    /\ g_out # NoSpec
    /\ g_in.intent = "alumnos_riesgo"
    /\ contains(W_alto, normalize_text(n_in.text))
    /\ n_out.entities.carreras = <<W_ISC>>
    /\ contains(T_AND \o T_carrera_like, g_out.query)


\* ----------------------------------------------------------------- C27

W_profesores_tabla == <<"p","r","o","f","e","s","o","r","e","s">>

\* C27: for intent consulta_profesores generate_query returns the fallback spec,
\* whatever the entities and the search terms: the teachers builder it dispatches to
\* does not exist, and no statement over profesores is generated.
C27_TeachersAlwaysFallback ==
    (g_out # NoSpec /\ g_in.intent = "consulta_profesores") =>
        /\ g_out = _generate_fallback_query
        /\ g_out.query = FallbackText
        /\ ~contains(W_profesores_tabla, g_out.query)

\* generate_query has returned the fallback spec for consulta_profesores with a
\* category, a term and three search terms, and validate_query accepts it.
C27_Witness ==
    /\ g_in.intent = "consulta_profesores"
    /\ g_in.entities.carreras # << >>
    /\ g_in.entities.cuatrimestres # << >>
    /\ Len(g_in.search_terms) = 3
    /\ g_out = _generate_fallback_query
    /\ g_valid = <<TRUE>>


\* ----------------------------------------------------------------- C29

\* C29: a statement validate_query accepts is still accepted after optimize_query:
\* the text that goes to the data store meets every condition of the validator, the
\* 2000-character cap included.
C29_OptimizeKeepsValid ==
    (q_valid = "true" /\ Len(q_hist) >= 2) => validate_query(q_hist[2])


\* ----------------------------------------------------------------- C30

\* C30: with calls on the same conversation id interleaved at their awaits, the
\* history a call reads in its personalization step ends with the entry the call
\* itself appended, nothing having been appended since, and the entry before it
\* (memoria[-2], whose intent the call takes as the previous intent) is the entry
\* that was the last of that conversation when the call appended its own.
C30_ReadsOwnPredecessor ==
    \A c \in Calls : \A r \in EventsOf(c, "read_memoria") :
        /\ EventsOf(c, "append") # {}
        /\ \A a \in EventsOf(c, "append") :
               LET conv == traza[c][a].arg[1]
                   pos == traza[c][a].arg[2]
                   memoria == traza[c][r].out
               IN  /\ a < r
                   /\ traza[c][r].arg = <<conv>>
                   /\ Len(memoria) = IF pos < MemoryCap THEN pos ELSE MemoryCap
                   /\ memoria[Len(memoria)] = traza[c][a].out[1]
                   /\ Len(memoria) > 1 =>
                          memoria[Len(memoria) - 1] = appended[conv][pos - 1]

\* Both callers are on conversation 101 with different messages; call 2 appended the
\* tenth entry and call 1 the eleventh, which evicted the oldest, and call 1 read the
\* entry of call 2 as the one before its own.
C30_Witness ==
    /\ args[1].conversacion_id = 101
    /\ args[2].conversacion_id = 101
    /\ args[1].mensaje # args[2].mensaje
    /\ Done(1)
    /\ \E a \in EventsOf(2, "append") : \E r \in EventsOf(1, "read_memoria") :
           /\ traza[2][a].arg[2] = MemoryCap
           /\ Len(traza[1][r].out) = MemoryCap
           /\ traza[1][r].out[MemoryCap - 1] = traza[2][a].out[1]
           /\ traza[1][r].out[MemoryCap].mensaje_usuario = args[1].mensaje

============================================================================
